---- MODULE Spec2Model ----
(***************************************************************************)
(* Model of the request-processing core of telegram-wg-bot: the in-memory  *)
(* rate limiters (FastRateLimit, simple RateLimit, ProgressiveRateLimit),  *)
(* the database-backed RateLimitMiddleware, the authorization middlewares  *)
(* (AllowOnly, FastAuthMiddleware, AuthMiddleware), the layers around the  *)
(* handler (GlobalErrorHandler, AuditMiddleware, LoggingMiddleware), the   *)
(* pipeline that TelegramWGBot.create_bot composes, the retry wrappers and *)
(* WireGuardManager.add_client.                                            *)
(*                                                                         *)
(* Time is time.monotonic() / datetime.utcnow() in whole seconds.  A       *)
(* coroutine is a task with a position pc; a task runs without             *)
(* interruption from one await to the next (asyncio), so one step of a     *)
(* task executes every position up to the next await.                      *)
(***************************************************************************)
EXTENDS Integers, Sequences, FiniteSets, TLC

VARIABLES
    now,        \* the clock, seconds
    variant,    \* which middleware class is under analysis
    bucket,     \* FastRateLimit.bucket / RateLimit.bucket: user_id -> [timestamps]
    buckets,    \* ProgressiveRateLimit.buckets: user_id -> record
    task,       \* per inbound event: position and locals of its coroutine
    admitted,   \* history: per user, the admission timestamps in order
    last,       \* history: the decision taken for the most recent event
    rate_limits,    \* the rate_limits table: rows (user_id, window_start, command_count)
    ALLOWED_USERS,  \* the configured allow-list, in the order configured
    users,          \* the users table: rows (telegram_id, is_admin)
    auth,           \* history: what the authorization did with the most recent event
    retry,          \* one call of the retry wrapper: its locals and what it has done
    pipe,           \* history: what the middleware layers around the handler did
                    \* with the most recent event, in order
    wg,             \* one call of WireGuardManager.add_client: its locals and result
    backup          \* BackupService: the archives, the service, one call of restore_backup

limVars == <<now, variant, bucket, buckets, task, admitted, last>>
authVars == <<ALLOWED_USERS, users, auth>>
\* the state the in-memory limiters never touch
\* the state outside the middlewares
auxVars == <<retry, pipe, wg, backup>>
nonLimVars == <<rate_limits, authVars, auxVars>>
vars == <<limVars, nonLimVars>>

----------------------------------------------------------------------------
(* Bounds of the model *)

\* the configured commands-per-minute of FastRateLimit / RateLimit
per_user_per_min == 2
\* settings.MAX_COMMANDS_PER_MINUTE as configured
MAX_COMMANDS_PER_MINUTE == 2
\* events in flight in one run of the concurrent limiter
MaxEvents == 3
\* last clock value of the concurrent limiter runs
MaxNowConc == 61
\* last clock value of the sequential sliding-window runs
MaxNow == 92
\* days the sequential progressive runs last
MaxDays == 6
\* the largest max_retries a caller of safe_telegram_call passes
MaxRetries == 5
\* the largest retries a caller of _execute_wg_command passes
MaxWgRetries == 3

(* Program constants *)
Window == 60
DayClean == 86400
PenaltyBase == 30
PenaltyCap == 300
\* timedelta(minutes=5), in seconds
CleanupAge == 300
\* safe_telegram_call: initial_delay and max_delay, seconds
InitialDelay == 2
MaxDelay == 30
\* safe_send: range(5)
SafeSendAttempts == 5
\* ConfigNameValidator.MIN_LENGTH and MAX_LENGTH
MIN_LENGTH == 3
MAX_LENGTH == 20
\* add_client: _execute_wg_command(['add', name], retries=3)
AddClientRetries == 3

Users == {1, 2}
\* an event without from_user (user_id is None)
NoUser == 0
Events == 1..MaxEvents
\* clock advances between steps of the concurrent limiter
TickSteps == {30, 31}
\* the instants at which the progressive runs receive events
Offsets == {0, 1, 30, 60, 61}
Instants == {d * DayClean + o : d \in 0..MaxDays, o \in Offsets}

\* identities that send events to the authorization middlewares
AuthUsers == {1, 2, 3}

\* the configurations of ALLOWED_USERS under analysis
AllowLists == {<<>>, <<1>>, <<1, 2>>, <<2, 1>>}

\* aiogram event types that carry from_user and answer()
Kinds == {"message", "callback_query"}

\* what is on record for an event: who sent it, whether the next stage and
\* the handler were called, which keys data got, what was sent and logged
NoAuth ==
    [kind |-> "none", user |-> NoUser, verdict |-> "none", next_calls |-> 0,
     handler_calls |-> 0, profile |-> FALSE, identity |-> FALSE, sent |-> "none",
     audit |-> "none", created |-> FALSE, db_failed |-> FALSE, raised |-> FALSE]

\* no database rows, no allow-list, no event: the state of a run that uses none
\* the locals of the retry wrapper and the record of its work
IdleRetry ==
    [fn |-> "none", pc |-> "idle", max_retries |-> 0, initial_delay |-> 0,
     attempt |-> 0, delay |-> 0,
     calls |-> 0, sleeps |-> <<>>, last_outcome |-> "none", hint |-> 0,
     only_network |-> TRUE, result |-> "none", cancelled |-> FALSE]

\* no event has gone through the layers around the handler
NoPipe ==
    [stack |-> "none", kind |-> "none", user |-> NoUser, command |-> FALSE,
     exc |-> "none", trace |-> <<>>, raised |-> "none"]

\* the locals of add_client / _execute_wg_command and the record of their work
IdleWg ==
    [fn |-> "none", pc |-> "idle", name |-> <<>>, retries |-> 0, attempt |-> 0,
     invocations |-> 0, sleeps |-> 0, outcomes |-> <<>>, success |-> FALSE,
     message |-> "none", data |-> [present |-> FALSE, name |-> <<>>],
     raised |-> FALSE]

\* BackupService with no archive, the service up and no restore under way
IdleBackup ==
    [pc |-> "idle", id |-> "none", files |-> {}, service |-> "running",
     config |-> "original", calls |-> <<>>, success |-> FALSE, message |-> "none"]

\* nothing outside the middlewares is running
AuxIdle == retry = IdleRetry /\ pipe = NoPipe /\ wg = IdleWg /\ backup = IdleBackup

NonLimIdle ==
    rate_limits = {} /\ ALLOWED_USERS = <<>> /\ users = {} /\ auth = NoAuth /\ AuxIdle

Min(a, b) == IF a <= b THEN a ELSE b
Max(a, b) == IF a >= b THEN a ELSE b

----------------------------------------------------------------------------
(* The in-memory limiters *)

\* the locals of one middleware coroutine
FreshTask == [pc |-> "idle", user |-> NoUser, tnow |-> 0]

\* what a finished or suspended call has decided
NoDecision ==
    [user |-> NoUser, outcome |-> "none", t |-> 0, limit |-> 0, retry_after |-> 0,
     violation |-> FALSE, calls |-> 0, raised |-> FALSE, fault |-> FALSE,
     notified |-> FALSE]

FreshBucket ==
    [commands |-> <<>>, violations |-> 0, last_violation |-> 0, penalty_until |-> 0]

\* a prune that also drops the timestamp exactly 60 s old
RECURSIVE PruneFrontEarly(_, _)
PruneFrontEarly(arr, t) ==
    IF arr # <<>> /\ t - Head(arr) >= Window
    THEN PruneFrontEarly(Tail(arr), t)
    ELSE arr

\* a prune that keeps a timestamp one second longer
RECURSIVE PruneFrontLate(_, _)
PruneFrontLate(arr, t) ==
    IF arr # <<>> /\ t - Head(arr) > Window + 1
    THEN PruneFrontLate(Tail(arr), t)
    ELSE arr

\* a prune with `if` in place of `while`: at most one timestamp is dropped
PruneFrontOnce(arr, t) ==
    IF arr # <<>> /\ t - Head(arr) > Window THEN Tail(arr) ELSE arr

\* while arr and now - arr[0] > 60: arr.pop(0)
RECURSIVE PruneFront(_, _)
PruneFront(arr, t) ==
    IF arr # <<>> /\ t - Head(arr) > Window
    THEN PruneFront(Tail(arr), t)
    ELSE arr

\* a bucket that is never cleaned
PruneFilterKeepAll(arr, t) == arr

\* [t for t in bucket['commands'] if now - t <= 60]
PruneFilter(arr, t) == SelectSeq(arr, LAMBDA x : t - x <= Window)

\* len(arr) >= self.per_user_per_min
OverLimit(arr, lim) == Len(arr) >= lim

\* the limit without the floor of one command a minute
EffectiveLimitNoFloor(violations) == MAX_COMMANDS_PER_MINUTE - violations

\* limit = max(1, base_limit - violations) if violations > 0 else base_limit
EffectiveLimit(violations) ==
    IF violations > 0
    THEN Max(1, MAX_COMMANDS_PER_MINUTE - violations)
    ELSE MAX_COMMANDS_PER_MINUTE

\* a violation that carries no timeout
PenaltyNone(violations) == 0

\* the exponential penalty without its cap
PenaltyUncapped(violations) == PenaltyBase * (2 ^ (violations - 1))

\* penalty_seconds = min(300, 30 * (2 ** (violations - 1)))
PenaltySeconds(violations) == Min(PenaltyCap, PenaltyBase * (2 ^ (violations - 1)))

\* as if an await stood between the length check and the append
AwaitBeforeAppend(pos) ==
    pos \in {"append", "notify", "handler", "select", "commit", "cleanup"}

\* the positions at which a limiter coroutine is suspended in an await: the
\* denial notice, the handler and the database calls of RateLimitMiddleware
AwaitAt(pos) == pos \in {"notify", "handler", "select", "commit", "cleanup"}

\* the call passes the event on without a check
PassThrough(s, i) ==
    [s EXCEPT !.task[i].pc = "handler",
              !.last = [NoDecision EXCEPT !.outcome = "passthrough"]]

\* FastRateLimit.__call__, lines 36-40
FastEnter(s, i) ==
    IF s.task[i].user = NoUser
    THEN PassThrough(s, i)
    ELSE [s EXCEPT !.task[i].pc = "check", !.task[i].tnow = now]

\* RateLimit.__call__, lines 11-12: event.from_user.id raises without from_user
SimpleEnter(s, i) ==
    IF s.task[i].user = NoUser
    THEN [s EXCEPT !.task[i].pc = "done",
                   !.last = [NoDecision EXCEPT !.outcome = "raised", !.raised = TRUE]]
    ELSE [s EXCEPT !.task[i].pc = "check", !.task[i].tnow = now]

\* a check that records the time of the event before it compares the length
SlidingCheckRecordsDenied(s, i) ==
    LET u == s.task[i].user
        t == s.task[i].tnow
        arr == PruneFront(s.bucket[u], t)
    IN  IF OverLimit(arr, per_user_per_min)
        THEN [s EXCEPT !.bucket[u] = Append(arr, t),
                       !.task[i].pc = "notify", !.task[i].tnow = 0,
                       !.last = [NoDecision EXCEPT !.user = u, !.outcome = "denied",
                                     !.t = t, !.limit = per_user_per_min]]
        ELSE [s EXCEPT !.bucket[u] = arr, !.task[i].pc = "append"]

\* FastRateLimit.__call__ lines 43-52, RateLimit.__call__ lines 12-16
SlidingCheck(s, i) ==
    LET u == s.task[i].user
        t == s.task[i].tnow
        arr == PruneFront(s.bucket[u], t)
        s1 == [s EXCEPT !.bucket[u] = arr]
    IN  IF OverLimit(arr, per_user_per_min)
        THEN [s1 EXCEPT !.task[i].pc = "notify", !.task[i].tnow = 0,
                        !.last = [NoDecision EXCEPT !.user = u, !.outcome = "denied",
                                      !.t = t, !.limit = per_user_per_min]]
        ELSE [s1 EXCEPT !.task[i].pc = "append"]

\* arr.append(now), then the handler is awaited
SlidingAppend(s, i) ==
    LET u == s.task[i].user
        t == s.task[i].tnow
    IN  [s EXCEPT !.bucket[u] = Append(@, t),
                  !.admitted[u] = Append(@, t),
                  !.task[i].pc = "handler", !.task[i].tnow = 0,
                  !.last = [NoDecision EXCEPT !.user = u, !.outcome = "admitted",
                                !.t = t, !.limit = per_user_per_min]]

\* a limiter that keeps no penalty timeout
InPenaltyNever(b, t) == FALSE

\* line 112: now < bucket['penalty_until']
InPenalty(b, t) == t < b.penalty_until

\* ProgressiveRateLimit.__call__, lines 99-115
ProgEnter(s, i) ==
    LET u == s.task[i].user IN
    IF u = NoUser
    THEN PassThrough(s, i)
    ELSE IF InPenalty(s.buckets[u], now)
         THEN [s EXCEPT !.task[i].pc = "notify",
                        !.last = [NoDecision EXCEPT !.user = u, !.outcome = "denied",
                                      !.t = now,
                                      !.retry_after = s.buckets[u].penalty_until - now]]
         ELSE [s EXCEPT !.task[i].pc = "check", !.task[i].tnow = now]

\* ProgressiveRateLimit.__call__, lines 117-143
ProgCheck(s, i) ==
    LET u == s.task[i].user
        t == s.task[i].tnow
        cmds == PruneFilter(s.buckets[u].commands, t)
        lim == EffectiveLimit(s.buckets[u].violations)
        v == s.buckets[u].violations + 1
        s1 == [s EXCEPT !.buckets[u].commands = cmds]
    IN  IF OverLimit(cmds, lim)
        THEN [s1 EXCEPT !.buckets[u].violations = v,
                        !.buckets[u].last_violation = t,
                        !.buckets[u].penalty_until = t + PenaltySeconds(v),
                        !.task[i].pc = "notify", !.task[i].tnow = 0,
                        !.last = [NoDecision EXCEPT !.user = u, !.outcome = "denied",
                                      !.t = t, !.limit = lim, !.violation = TRUE,
                                      !.retry_after = PenaltySeconds(v)]]
        ELSE [s1 EXCEPT !.task[i].pc = "append"]

\* the reset rule of lines 148-150
CleanReset(b, t) ==
    IF b.violations > 0 /\ t - b.last_violation > DayClean
    THEN [b EXCEPT !.violations = 0]
    ELSE b

\* ProgressiveRateLimit.__call__, lines 145-153
ProgAppend(s, i) ==
    LET u == s.task[i].user
        t == s.task[i].tnow
        b == [s.buckets[u] EXCEPT !.commands = Append(@, t)]
    IN  [s EXCEPT !.buckets[u] = CleanReset(b, t),
                  !.admitted[u] = Append(@, t),
                  !.task[i].pc = "handler", !.task[i].tnow = 0,
                  !.last = [NoDecision EXCEPT !.user = u, !.outcome = "admitted",
                                !.t = t,
                                !.limit = EffectiveLimit(s.buckets[u].violations)]]

\* now.replace(second=0, microsecond=0)
WindowStart(t) == t - (t % Window)

\* select(RateLimit).where(user_id == ..., window_start == ...)
Rows(tbl, u, w) == {r \in tbl : r.user_id = u /\ r.window_start = w}

\* the locals of one RateLimitMiddleware coroutine
FreshDbTask == [pc |-> "idle", user |-> NoUser, tnow |-> 0, found |-> FALSE, cnt |-> 0]

\* _check_rate_limit returns True: the event goes on to the handler
DbAllow(s, i, failed) ==
    LET u == s.task[i].user
        t == s.task[i].tnow
    IN  [s EXCEPT !.task[i].pc = "handler",
                  !.admitted[u] = Append(@, t),
                  !.last = [NoDecision EXCEPT !.user = u, !.outcome = "admitted",
                                !.t = t, !.limit = MAX_COMMANDS_PER_MINUTE,
                                !.fault = failed]]

\* RateLimitMiddleware.__call__ lines 35-46, _check_rate_limit lines 64-68
DbEnter(s, i) ==
    IF s.task[i].user = NoUser
    THEN PassThrough(s, i)
    ELSE [s EXCEPT !.task[i].pc = "select", !.task[i].tnow = now]

\* a check that treats a failed select as an exceeded limit
DbSelectFailClosed(s, i, ok) ==
    LET u == s.task[i].user
        t == s.task[i].tnow
        rows == Rows(s.rate_limits, u, WindowStart(t))
        deny == [NoDecision EXCEPT !.user = u, !.outcome = "denied", !.t = t,
                                   !.limit = MAX_COMMANDS_PER_MINUTE]
    IN  IF ~ok
        THEN [s EXCEPT !.task[i].pc = "notify", !.last = [deny EXCEPT !.fault = TRUE]]
        ELSE IF rows = {}
        THEN [s EXCEPT !.task[i].pc = "commit", !.task[i].found = FALSE,
                       !.task[i].cnt = 1]
        ELSE LET r == CHOOSE x \in rows : TRUE IN
             IF r.command_count >= MAX_COMMANDS_PER_MINUTE
             THEN [s EXCEPT !.task[i].pc = "notify", !.last = deny]
             ELSE [s EXCEPT !.task[i].pc = "commit", !.task[i].found = TRUE,
                            !.task[i].cnt = r.command_count + 1]

\* _check_rate_limit lines 72-105: the select returns, the count is compared
\* and the row is changed in the session; an exception is caught at line 113
DbSelect(s, i, ok) ==
    LET u == s.task[i].user
        t == s.task[i].tnow
        rows == Rows(s.rate_limits, u, WindowStart(t))
    IN  IF ~ok THEN DbAllow(s, i, TRUE)
        ELSE IF rows = {}
        THEN [s EXCEPT !.task[i].pc = "commit", !.task[i].found = FALSE,
                       !.task[i].cnt = 1]
        ELSE LET r == CHOOSE x \in rows : TRUE IN
             IF r.command_count >= MAX_COMMANDS_PER_MINUTE
             THEN [s EXCEPT !.task[i].pc = "notify",
                            !.last = [NoDecision EXCEPT !.user = u,
                                          !.outcome = "denied", !.t = t,
                                          !.limit = MAX_COMMANDS_PER_MINUTE]]
             ELSE [s EXCEPT !.task[i].pc = "commit", !.task[i].found = TRUE,
                            !.task[i].cnt = r.command_count + 1]

\* _check_rate_limit line 105: the commit writes the session's row; an UPDATE
\* of a deleted row and an INSERT that breaks unique_user_window raise, and the
\* exception is caught at line 113 (return True)
DbCommit(s, i, ok) ==
    LET u == s.task[i].user
        w == WindowStart(s.task[i].tnow)
        rows == Rows(s.rate_limits, u, w)
        row == [user_id |-> u, window_start |-> w, command_count |-> s.task[i].cnt]
    IN  IF ~ok \/ (s.task[i].found <=> rows = {})
        THEN DbAllow(s, i, TRUE)
        ELSE [s EXCEPT !.rate_limits = (@ \ rows) \cup {row},
                       !.task[i].pc = "cleanup"]

\* _cleanup_old_records, then return True; a failure of the delete is caught
\* inside _cleanup_old_records (line 129) and leaves the rows in place
DbCleanup(s, i, ok) ==
    LET t == s.task[i].tnow
        s1 == [s EXCEPT !.rate_limits = {r \in @ : ~(r.window_start < t - CleanupAge)}]
    IN  IF ok THEN DbAllow(s1, i, FALSE) ELSE DbAllow(s, i, TRUE)

\* the denial notice: event.answer(...); FastRateLimit and ProgressiveRateLimit
\* swallow its failure, RateLimit returns the awaited answer and lets it raise
Notify(s, i, ok) ==
    [s EXCEPT !.task[i].pc = "done",
              !.last.notified = TRUE,
              !.last.raised = (variant = "simple" /\ ~ok)]

\* return await handler(event, data)
CallHandler(s, i) ==
    [s EXCEPT !.task[i].pc = "done", !.last.calls = @ + 1]

\* one position of the installed limiter's __call__ for event i
Micro(s, i, ok) ==
    LET pos == s.task[i].pc IN
    CASE pos = "enter" ->
            (CASE variant = "fast" -> FastEnter(s, i)
               [] variant = "simple" -> SimpleEnter(s, i)
               [] variant = "db" -> DbEnter(s, i)
               [] OTHER -> ProgEnter(s, i))
      [] pos = "select" -> DbSelect(s, i, ok)
      [] pos = "commit" -> DbCommit(s, i, ok)
      [] pos = "cleanup" -> DbCleanup(s, i, ok)
      [] pos = "check" ->
            IF variant = "progressive" THEN ProgCheck(s, i) ELSE SlidingCheck(s, i)
      [] pos = "append" ->
            IF variant = "progressive" THEN ProgAppend(s, i) ELSE SlidingAppend(s, i)
      [] pos = "notify" -> Notify(s, i, ok)
      [] pos = "handler" -> CallHandler(s, i)
      [] OTHER -> s

\* a task runs on until it is suspended in an await or returns
RECURSIVE RunToAwait(_, _, _)
RunToAwait(s, i, ok) ==
    IF AwaitAt(s.task[i].pc) \/ s.task[i].pc = "done"
    THEN s
    ELSE RunToAwait(Micro(s, i, ok), i, ok)

\* a task runs to its return, every await completing at once
RECURSIVE RunToDone(_, _, _)
RunToDone(s, i, ok) ==
    IF s.task[i].pc = "done"
    THEN s
    ELSE RunToDone(Micro(s, i, ok), i, ok)

LimState ==
    [bucket |-> bucket, buckets |-> buckets, task |-> task, admitted |-> admitted,
     last |-> last, rate_limits |-> rate_limits]

LimiterVariants == {"fast", "simple", "progressive"}

----------------------------------------------------------------------------
(* Concurrent events through one limiter *)

InitLimiter ==
    /\ now = 0
    /\ variant \in LimiterVariants
    /\ bucket = [u \in Users |-> <<>>]
    /\ buckets = [u \in Users |-> FreshBucket]
    /\ task = [i \in Events |-> FreshTask]
    /\ admitted = [u \in Users |-> <<>>]
    /\ last = NoDecision
    /\ NonLimIdle

\* the dispatcher starts the middleware coroutine of the next inbound event
Arrive(i, u) ==
    /\ task[i].pc = "idle"
    /\ IF i = 1 THEN TRUE ELSE task[i - 1].pc # "idle"
    /\ task' = [task EXCEPT ![i].pc = "enter", ![i].user = u]
    /\ UNCHANGED <<now, variant, bucket, buckets, admitted, last, nonLimVars>>

\* the event loop resumes task i, which runs to its next await
Step(i, ok) ==
    /\ task[i].pc \notin {"idle", "done"}
    /\ LET s == RunToAwait(Micro(LimState, i, ok), i, ok) IN
        /\ bucket' = s.bucket
        /\ buckets' = s.buckets
        /\ task' = s.task
        /\ admitted' = s.admitted
    /\ UNCHANGED <<now, variant, last, nonLimVars>>

Tick(d) ==
    /\ now + d <= MaxNowConc
    /\ now' = now + d
    /\ UNCHANGED <<variant, bucket, buckets, task, admitted, last, nonLimVars>>

NextLimiter ==
    \/ \E i \in Events, u \in Users : Arrive(i, u)
    \/ \E i \in Events, ok \in BOOLEAN : Step(i, ok)
    \/ \E d \in TickSteps : Tick(d)

SpecLimiter == InitLimiter /\ [][NextLimiter]_vars

----------------------------------------------------------------------------
(* Events processed one after another by FastRateLimit or RateLimit *)

One == {1}

InitSliding ==
    /\ now = 0
    /\ variant \in {"fast", "simple"}
    /\ bucket = [u \in Users |-> <<>>]
    /\ buckets = [u \in Users |-> FreshBucket]
    /\ task = [i \in One |-> FreshTask]
    /\ admitted = [u \in Users |-> <<>>]
    /\ last = NoDecision
    /\ NonLimIdle

\* one inbound event runs through the limiter's __call__ to its return
Event(u, ok) ==
    /\ LET s0 == [LimState EXCEPT !.task[1].pc = "enter", !.task[1].user = u]
           s == RunToDone(s0, 1, ok)
       IN  /\ bucket' = s.bucket
           /\ buckets' = s.buckets
           /\ admitted' = s.admitted
           /\ last' = s.last
    /\ UNCHANGED <<now, variant, task, nonLimVars>>

TickSliding(d) ==
    /\ now + d <= MaxNow
    /\ now' = now + d
    /\ UNCHANGED <<variant, bucket, buckets, task, admitted, last, nonLimVars>>

NextSliding ==
    \/ \E u \in Users \cup {NoUser}, ok \in BOOLEAN : Event(u, ok)
    \/ \E d \in TickSteps : TickSliding(d)

SpecSliding == InitSliding /\ [][NextSliding]_vars

----------------------------------------------------------------------------
(* Events processed one after another by ProgressiveRateLimit *)

InitProg ==
    /\ now = 0
    /\ variant = "progressive"
    /\ bucket = [u \in Users |-> <<>>]
    /\ buckets = [u \in Users |-> FreshBucket]
    /\ task = [i \in One |-> FreshTask]
    /\ admitted = [u \in Users |-> <<>>]
    /\ last = NoDecision
    /\ NonLimIdle

\* one inbound event runs through ProgressiveRateLimit.__call__ to its return
\* (the admission history is not kept in these runs)
ProgEvent(u, ok) ==
    /\ LET s0 == [LimState EXCEPT !.task[1].pc = "enter", !.task[1].user = u]
           s == RunToDone(s0, 1, ok)
       IN  /\ buckets' = s.buckets
           /\ last' = s.last
    /\ UNCHANGED <<now, variant, bucket, task, admitted, nonLimVars>>

\* the clock advances to a later instant
Advance(t) ==
    /\ t > now
    /\ now' = t
    /\ UNCHANGED <<variant, bucket, buckets, task, admitted, last, nonLimVars>>

\* the identity whose events the progressive runs follow
ProgUsers == {1}

NextProg ==
    \/ \E u \in ProgUsers \cup {NoUser}, ok \in BOOLEAN : ProgEvent(u, ok)
    \/ \E t \in Instants : Advance(t)

SpecProg == InitProg /\ [][NextProg]_vars

----------------------------------------------------------------------------
(* Concurrent events through the database-backed RateLimitMiddleware *)

InitDb ==
    /\ now = 0
    /\ variant = "db"
    /\ bucket = [u \in Users |-> <<>>]
    /\ buckets = [u \in Users |-> FreshBucket]
    /\ task = [i \in Events |-> FreshDbTask]
    /\ admitted = [u \in Users |-> <<>>]
    /\ last = NoDecision
    /\ NonLimIdle

\* the event loop resumes task i, which runs to its next await; the store
\* itself does not fail in these runs (ok is the fate of the denial notice)
DbStep(i, ok) ==
    /\ task[i].pc \notin {"idle", "done"}
    /\ task[i].pc \in {"select", "commit", "cleanup"} => ok
    /\ LET s == RunToAwait(Micro(LimState, i, ok), i, ok) IN
        /\ rate_limits' = s.rate_limits
        /\ task' = s.task
        /\ admitted' = s.admitted
    /\ UNCHANGED <<now, variant, bucket, buckets, last, authVars, auxVars>>

NextDb ==
    \/ \E i \in Events, u \in Users : Arrive(i, u)
    \/ \E i \in Events, ok \in BOOLEAN : DbStep(i, ok)
    \/ \E d \in TickSteps : Tick(d)

SpecDb == InitDb /\ [][NextDb]_vars

----------------------------------------------------------------------------
(* RateLimitMiddleware, one event after another *)

\* the fate of each await of one call: the select, the commit, the delete of
\* the cleanup and the denial notice
Fates == [select : BOOLEAN, commit : BOOLEAN, cleanup : BOOLEAN, notify : BOOLEAN]
Healthy == {f \in Fates : f.select /\ f.commit /\ f.cleanup}

FateAt(pos, f) ==
    CASE pos = "select" -> f.select
      [] pos = "commit" -> f.commit
      [] pos = "cleanup" -> f.cleanup
      [] OTHER -> f.notify

\* RateLimitMiddleware.__call__ from entry to return, every await completing
\* at once with the fate f gives it
RECURSIVE DbRunToDone(_, _, _)
DbRunToDone(s, i, f) ==
    IF s.task[i].pc = "done"
    THEN s
    ELSE DbRunToDone(Micro(s, i, FateAt(s.task[i].pc, f)), i, f)

\* admissions kept per identity in the sequential runs
MaxAdmitted == 2 * MAX_COMMANDS_PER_MINUTE + 1

InitDbSeq ==
    /\ now = 0
    /\ variant = "db"
    /\ bucket = [u \in Users |-> <<>>]
    /\ buckets = [u \in Users |-> FreshBucket]
    /\ task = [i \in One |-> FreshDbTask]
    /\ admitted = [u \in Users |-> <<>>]
    /\ last = NoDecision
    /\ NonLimIdle

\* one inbound event runs through RateLimitMiddleware.__call__ to its return
DbEvent(u, f) ==
    /\ u \in Users => Len(admitted[u]) < MaxAdmitted
    /\ LET s0 == [LimState EXCEPT !.task[1].pc = "enter", !.task[1].user = u]
           s == DbRunToDone(s0, 1, f)
       IN  /\ rate_limits' = s.rate_limits
           /\ admitted' = s.admitted
           /\ last' = s.last
    /\ UNCHANGED <<now, variant, bucket, buckets, task, authVars, auxVars>>

\* the store answers every statement
NextDbSeq ==
    \/ \E u \in Users \cup {NoUser}, f \in Healthy : DbEvent(u, f)
    \/ \E d \in TickSteps : TickSliding(d)

SpecDbSeq == InitDbSeq /\ [][NextDbSeq]_vars

\* the store may fail at any statement
NextDbFault ==
    \/ \E u \in One \cup {NoUser}, f \in Fates : DbEvent(u, f)
    \/ \E d \in TickSteps : TickSliding(d)

SpecDbFault == InitDbSeq /\ [][NextDbFault]_vars

----------------------------------------------------------------------------
(* The authorization middlewares *)

\* set(settings.ALLOWED_USERS); allow_only.py parses the same list into a set
Allowed(list) == {list[k] : k \in 1..Len(list)}

\* list(self.allowed_users)[0]: the first element a set of small ints yields is
\* the one in the lowest slot of its 8-slot hash table (hash(i) = i), whatever
\* the order of the configured list
SetFirst(S) == CHOOSE x \in S : \A y \in S : x % 8 <= y % 8

\* the empty allow-list in front of the membership test never denies
NotAllowedNever(allowed, id) == FALSE

\* AllowOnly.__call__ line 23, FastAuthMiddleware.__call__ line 42
NotAllowed(allowed, id) == allowed # {} /\ id \notin allowed

\* AuthMiddleware._is_authorized
IsAuthorized(list, telegram_id) ==
    IF telegram_id = NoUser THEN FALSE ELSE telegram_id \in Allowed(list)

\* the is_admin expression of _get_or_create_user, when the allow-list is
\* non-empty: allow_only.py lines 69 and 78, fast_auth.py lines 105 and 114,
\* auth.py lines 120 and 130-133
AdminFlag(v, list, id) ==
    CASE v = "AllowOnly" -> id \in Allowed(list)
      [] v = "FastAuth" -> id = SetFirst(Allowed(list))
      [] OTHER -> id = list[1]

Profile(tbl, id) == {r \in tbl : r.telegram_id = id}

\* an update that assigns the flag computed for this call to a stored profile
GetOrCreateUserAssign(v, tbl, list, id, dbfail, strict) ==
    LET old == Profile(tbl, id)
        flag == list # <<>> /\ AdminFlag(v, list, id)
    IN  IF dbfail \/ (old = {} /\ list = <<>> /\ strict)
        THEN [ok |-> FALSE, users |-> tbl, created |-> FALSE]
        ELSE [ok |-> TRUE, created |-> old = {},
              users |-> (tbl \ old) \cup {[telegram_id |-> id, is_admin |-> flag]}]

\* _get_or_create_user: select, update or insert, commit.  With an empty
\* allow-list the is_admin expression is the empty container itself, which
\* the Boolean column either rejects at flush (strict) or stores as false.
GetOrCreateUser(v, tbl, list, id, dbfail, strict) ==
    LET old == Profile(tbl, id)
        failed == [ok |-> FALSE, users |-> tbl, created |-> FALSE]
    IN  IF dbfail THEN failed
        ELSE IF old # {}
        THEN [ok |-> TRUE, created |-> FALSE,
              users |-> IF list # <<>> /\ AdminFlag(v, list, id)
                        THEN (tbl \ old) \cup {[telegram_id |-> id, is_admin |-> TRUE]}
                        ELSE tbl]
        ELSE IF list = <<>>
        THEN IF strict THEN failed
             ELSE [ok |-> TRUE, created |-> TRUE,
                   users |-> tbl \cup {[telegram_id |-> id, is_admin |-> FALSE]}]
        ELSE [ok |-> TRUE, created |-> TRUE,
              users |-> tbl \cup {[telegram_id |-> id,
                                   is_admin |-> AdminFlag(v, list, id)]}]

\* the event as it enters a middleware
Inbound(kind, id) == [NoAuth EXCEPT !.kind = kind, !.user = id]

\* an event without a sender treated as an outsider
AuthSkipDenied(tbl, kind, id) ==
    [users |-> tbl, auth |-> [Inbound(kind, id) EXCEPT !.verdict = "denied"]]

\* return await handler(event, data) with no check made
AuthSkip(tbl, kind, id) ==
    [users |-> tbl,
     auth |-> [Inbound(kind, id) EXCEPT !.verdict = "skipped", !.next_calls = 1]]

\* lines shared by AllowOnly and FastAuthMiddleware: fetch or create the
\* profile, on failure go on with the identity only, then call the handler
AuthProceed(v, tbl, list, kind, id, dbfail, strict) ==
    LET g == GetOrCreateUser(v, tbl, list, id, dbfail, strict) IN
    [users |-> g.users,
     auth |-> [Inbound(kind, id) EXCEPT !.verdict = "allowed", !.next_calls = 1,
                   !.profile = g.ok, !.identity = TRUE, !.created = g.created,
                   !.db_failed = ~g.ok]]

\* AllowOnly.__call__ (allow_only.py): the denial is the awaited answer itself
AllowOnlyCall(tbl, list, kind, id, dbfail, ansok, strict) ==
    IF id = NoUser THEN AuthSkip(tbl, kind, id)
    ELSE IF NotAllowed(Allowed(list), id)
    THEN [users |-> tbl,
          auth |-> [Inbound(kind, id) EXCEPT !.verdict = "denied",
                        !.sent = IF ansok THEN "denial" ELSE "none",
                        !.raised = ~ansok]]
    ELSE AuthProceed("AllowOnly", tbl, list, kind, id, dbfail, strict)

\* FastAuthMiddleware.__call__ with _handle_unauthorized
FastAuthCall(tbl, list, kind, id, dbfail, ansok, strict) ==
    IF id = NoUser THEN AuthSkip(tbl, kind, id)
    ELSE IF NotAllowed(Allowed(list), id)
    THEN [users |-> tbl,
          auth |-> [Inbound(kind, id) EXCEPT !.verdict = "denied",
                        !.audit = "user_id",
                        !.sent = IF ansok THEN "denial" ELSE "none"]]
    ELSE AuthProceed("FastAuth", tbl, list, kind, id, dbfail, strict)

\* AuthMiddleware.__call__ with _handle_unauthorized_access and
\* _handle_database_error
AuthMiddlewareCall(tbl, list, kind, id, dbfail, ansok, strict) ==
    IF id = NoUser THEN AuthSkip(tbl, kind, id)
    ELSE IF ~IsAuthorized(list, id)
    THEN [users |-> tbl,
          auth |-> [Inbound(kind, id) EXCEPT !.verdict = "denied",
                        !.audit = "user_id,username,allowed_users",
                        !.sent = IF ansok THEN "denial" ELSE "none"]]
    ELSE LET g == GetOrCreateUser("Auth", tbl, list, id, dbfail, strict) IN
         IF g.ok
         THEN [users |-> g.users,
               auth |-> [Inbound(kind, id) EXCEPT !.verdict = "allowed",
                             !.next_calls = 1, !.profile = TRUE,
                             !.created = g.created]]
         ELSE [users |-> tbl,
               auth |-> [Inbound(kind, id) EXCEPT !.verdict = "allowed",
                             !.db_failed = TRUE,
                             !.sent = IF kind = "message" /\ ansok
                                      THEN "db_error" ELSE "none"]]

AuthVariants == {"AllowOnly", "FastAuth", "Auth"}

\* what a denial writes to the audit log, as the fields of each record:
\* AllowOnly writes nothing, FastAuthMiddleware the identity, AuthMiddleware
\* the identity (with the username) and settings.ALLOWED_USERS itself
SecurityRecord(v, list, id) ==
    CASE v = "AllowOnly" -> <<>>
      [] v = "FastAuth" -> << <<"UNAUTHORIZED_ACCESS", id>> >>
      [] OTHER -> << <<"UNAUTHORIZED ACCESS ATTEMPT", id, list>> >>

\* the users table a run starts with: empty, or one profile left by an
\* earlier run
StoredProfiles ==
    {{}} \cup {{[telegram_id |-> id, is_admin |-> a]} : id \in AuthUsers, a \in BOOLEAN}

InitAuth ==
    /\ now = 0
    /\ variant \in AuthVariants
    /\ bucket = [u \in Users |-> <<>>]
    /\ buckets = [u \in Users |-> FreshBucket]
    /\ task = [i \in One |-> FreshTask]
    /\ admitted = [u \in Users |-> <<>>]
    /\ last = NoDecision
    /\ rate_limits = {}
    /\ ALLOWED_USERS \in AllowLists
    /\ users \in StoredProfiles
    /\ auth = NoAuth
    /\ AuxIdle

\* one inbound event runs through the authorization middleware, whose next
\* stage is the handler
AuthEvent(kind, id, dbfail, ansok, strict) ==
    /\ LET r == CASE variant = "AllowOnly" ->
                        AllowOnlyCall(users, ALLOWED_USERS, kind, id, dbfail, ansok, strict)
                  [] variant = "FastAuth" ->
                        FastAuthCall(users, ALLOWED_USERS, kind, id, dbfail, ansok, strict)
                  [] OTHER ->
                        AuthMiddlewareCall(users, ALLOWED_USERS, kind, id, dbfail, ansok, strict)
       IN  /\ users' = r.users
           /\ auth' = [r.auth EXCEPT !.handler_calls = r.auth.next_calls]
    /\ UNCHANGED <<limVars, rate_limits, ALLOWED_USERS, auxVars>>

NextAuth ==
    \E kind \in Kinds, id \in AuthUsers \cup {NoUser}, dbfail, ansok, strict \in BOOLEAN :
        AuthEvent(kind, id, dbfail, ansok, strict)

SpecAuth == InitAuth /\ [][NextAuth]_vars

----------------------------------------------------------------------------
(* The middlewares that let an event without a sender through *)

\* AllowOnly, FastAuthMiddleware and FastRateLimit, each installed alone
NoSenderVariants == {"AllowOnly", "FastAuth", "fast"}

InitNoSender ==
    /\ now = 0
    /\ variant \in NoSenderVariants
    /\ bucket = [u \in Users |-> <<>>]
    /\ buckets = [u \in Users |-> FreshBucket]
    /\ task = [i \in One |-> FreshTask]
    /\ admitted = [u \in Users |-> <<>>]
    /\ last = NoDecision
    /\ rate_limits = {}
    /\ ALLOWED_USERS \in (IF variant = "fast" THEN {<<>>} ELSE AllowLists)
    /\ users \in (IF variant = "fast" THEN {{}} ELSE StoredProfiles)
    /\ auth = NoAuth
    /\ AuxIdle

NextNoSender ==
    \/ /\ variant \in {"AllowOnly", "FastAuth"}
       /\ \E kind \in Kinds, id \in AuthUsers \cup {NoUser}, dbfail, ansok, strict \in BOOLEAN :
              AuthEvent(kind, id, dbfail, ansok, strict)
    \/ /\ variant = "fast"
       /\ \E u \in Users \cup {NoUser}, ok \in BOOLEAN : Event(u, ok)
    \/ /\ variant = "fast"
       /\ \E d \in TickSteps : TickSliding(d)

SpecNoSender == InitNoSender /\ [][NextNoSender]_vars

----------------------------------------------------------------------------
(* The layers around the handler: GlobalErrorHandler, AuditMiddleware and   *)
(* LoggingMiddleware.  A call of a layer yields what was recorded and sent, *)
(* in order, and the exception that leaves the call.                        *)

NoExc == "none"

\* the classes of the exceptions a handler raises: the provider errors of
\* aiogram.exceptions, one for each except clause and one (a server error)
\* that only the TelegramAPIError clause matches, and an error of the
\* application
Raisable ==
    {"TelegramUnauthorizedError", "TelegramForbiddenError", "TelegramBadRequest",
     "TelegramRetryAfter", "TelegramNetworkError", "TelegramServerError", "ValueError"}

HandlerOutcomes == Raisable \cup {NoExc}

\* isinstance: the classes an exception of class c is an instance of
Bases(c) ==
    IF c = "ValueError" THEN {c, "Exception"} ELSE {c, "TelegramAPIError", "Exception"}

\* the except clauses of GlobalErrorHandler.__call__, in the order written
ExceptClauses ==
    <<"TelegramUnauthorizedError", "TelegramForbiddenError", "TelegramBadRequest",
      "TelegramRetryAfter", "TelegramNetworkError", "TelegramAPIError", "Exception">>

\* the first clause that matches the exception, "none" when no clause does
Caught(clauses, c) ==
    LET hit == {k \in 1..Len(clauses) : clauses[k] \in Bases(c)} IN
    IF hit = {} THEN NoExc
    ELSE clauses[CHOOSE k \in hit : \A j \in hit : k <= j]

\* what each clause writes to the audit log
ErrorRecord(clause) ==
    CASE clause = "TelegramUnauthorizedError" -> "BOT_UNAUTHORIZED"
      [] clause = "TelegramForbiddenError" -> "TELEGRAM_FORBIDDEN"
      [] clause = "TelegramBadRequest" -> "TELEGRAM_BAD_REQUEST"
      [] clause = "TelegramRetryAfter" -> "TELEGRAM_RATE_LIMIT"
      [] clause = "TelegramNetworkError" -> "TELEGRAM_NETWORK_ERROR"
      [] clause = "TelegramAPIError" -> "TELEGRAM_API_ERROR"
      [] OTHER -> "UNHANDLED_ERROR"

\* a classifier that answers the user whatever the clause
SendsMessageAlways(clause) == TRUE

\* the clauses whose _handle_* method calls _send_safe_error_message:
\* _handle_unauthorized_error and _handle_forbidden_error only log
SendsMessage(clause) ==
    clause \notin {"TelegramUnauthorizedError", "TelegramForbiddenError"}

\* a sender that lets the failure of event.answer out
SendErrorMessageUnsafe(kind, sendok) ==
    IF kind \in Kinds
    THEN [trace |-> <<"answer">>, exc |-> IF sendok THEN NoExc ELSE "TelegramNetworkError"]
    ELSE [trace |-> <<>>, exc |-> NoExc]

\* _send_safe_error_message: one event.answer for a Message or a
\* CallbackQuery, whose failure is logged
SendSafeErrorMessage(kind, sendok) ==
    IF kind \in Kinds
    THEN [trace |-> IF sendok THEN <<"answer">>
                    ELSE <<"answer", "Could not send error message">>,
          exc |-> NoExc]
    ELSE [trace |-> <<>>, exc |-> NoExc]

\* the handler is awaited and returns or raises
HandlerCall(exc) == [trace |-> <<"handler">>, exc |-> exc]

\* the _handle_* method of a clause
HandleError(clause, ev, sendok) ==
    IF SendsMessage(clause)
    THEN SendSafeErrorMessage(ev.kind, sendok)
    ELSE IF clause = "TelegramForbiddenError"
    THEN [trace |-> IF ev.user # NoUser THEN <<"User blocked bot">> ELSE <<>>,
          exc |-> NoExc]
    ELSE [trace |-> <<"Bot token is invalid or revoked!">>, exc |-> NoExc]

\* GlobalErrorHandler.__call__ around a call that ended as inner
GlobalErrorHandlerCall(ev, inner, sendok) ==
    LET clause == Caught(ExceptClauses, inner.exc) IN
    IF inner.exc = NoExc \/ clause = NoExc
    THEN inner
    ELSE LET h == HandleError(clause, ev, sendok) IN
         [trace |-> inner.trace \o <<ErrorRecord(clause)>>
                    \o (IF clause = "Exception"
                        THEN <<"Unhandled exception in bot">> ELSE <<>>)
                    \o h.trace,
          exc |-> h.exc]

\* AuditMiddleware.__call__ around a call that ended as inner: audit_info is
\* None for an event that is neither a Message nor a CallbackQuery
AuditCall(ev, inner) ==
    IF ev.kind \notin Kinds
    THEN inner
    ELSE [trace |-> inner.trace \o <<IF inner.exc = NoExc THEN "COMMAND_SUCCESS"
                                     ELSE "COMMAND_ERROR">>,
          exc |-> inner.exc]

\* _store_command_log: a row for a command of a message whose user is known,
\* its failure logged
StoreCommandLog(ev, dbok) ==
    IF ~(ev.kind = "message" /\ ev.command) \/ ev.user = NoUser
    THEN <<>>
    ELSE IF dbok THEN <<"command_log">> ELSE <<"Failed to store command log">>

\* status = 'error' if error else 'success'
CompletionRecord(exc) ==
    IF exc # NoExc THEN "request_completed error" ELSE "request_completed success"

\* a completion record that is written only when the handler returned
LoggingCallNoFinally(ev, inner, dbok) ==
    [trace |-> <<"incoming_request">> \o inner.trace
               \o (IF inner.exc # NoExc THEN <<"Handler error">>
                   ELSE <<CompletionRecord(inner.exc)>> \o StoreCommandLog(ev, dbok)),
     exc |-> inner.exc]

\* LoggingMiddleware.__call__ around a call that ended as inner:
\* _log_incoming_request, the handler, the except clause, then the finally
\* clause with _log_request_completion, and the exception goes on
LoggingCall(ev, inner, dbok) ==
    [trace |-> <<"incoming_request">> \o inner.trace
               \o (IF inner.exc # NoExc THEN <<"Handler error">> ELSE <<>>)
               \o <<CompletionRecord(inner.exc)>>
               \o StoreCommandLog(ev, dbok),
     exc |-> inner.exc]

\* the record of an event that went through a stack of layers
Ran(stack, ev, exc, r) ==
    [stack |-> stack, kind |-> ev.kind, user |-> ev.user, command |-> ev.command,
     exc |-> exc, trace |-> r.trace, raised |-> r.exc]

InboundEvents == [kind : Kinds, user : Users \cup {NoUser}, command : BOOLEAN]

InitLayers ==
    /\ now = 0
    /\ variant = "layers"
    /\ bucket = [u \in Users |-> <<>>]
    /\ buckets = [u \in Users |-> FreshBucket]
    /\ task = [i \in One |-> FreshTask]
    /\ admitted = [u \in Users |-> <<>>]
    /\ last = NoDecision
    /\ NonLimIdle

\* an event goes to a handler wrapped by AuditMiddleware wrapped by
\* GlobalErrorHandler
ErrorEvent(ev, exc, sendok) ==
    /\ pipe' = Ran("errors", ev, exc,
                   GlobalErrorHandlerCall(ev, AuditCall(ev, HandlerCall(exc)), sendok))
    /\ UNCHANGED <<limVars, rate_limits, authVars, retry, wg, backup>>

\* an event goes to a handler wrapped by LoggingMiddleware
LoggingEvent(ev, exc, dbok) ==
    /\ pipe' = Ran("logging", ev, exc, LoggingCall(ev, HandlerCall(exc), dbok))
    /\ UNCHANGED <<limVars, rate_limits, authVars, retry, wg, backup>>

NextLayers ==
    \/ \E ev \in InboundEvents, exc \in HandlerOutcomes, sendok \in BOOLEAN :
            ErrorEvent(ev, exc, sendok)
    \/ \E ev \in InboundEvents, exc \in HandlerOutcomes, dbok \in BOOLEAN :
            LoggingEvent(ev, exc, dbok)

SpecLayers == InitLayers /\ [][NextLayers]_vars

----------------------------------------------------------------------------
(* The pipeline composed by TelegramWGBot.create_bot *)

\* create_bot registers AllowOnly, RateLimit and LoggingMiddleware on
\* dp.message only; the routers' callback_query handlers have no middleware,
\* and polling delivers both update types
Guarded(kind) == kind = "message"

InitPipeline ==
    /\ now = 0
    /\ variant = "simple"
    /\ bucket = [u \in Users |-> <<>>]
    /\ buckets = [u \in Users |-> FreshBucket]
    /\ task = [i \in One |-> FreshTask]
    /\ admitted = [u \in Users |-> <<>>]
    /\ last = NoDecision
    /\ rate_limits = {}
    /\ ALLOWED_USERS \in AllowLists
    /\ users = {}
    /\ auth = NoAuth
    /\ AuxIdle

\* what the handlers of the routers do in these runs: return, or raise the
\* error of a failed provider call
PipelineOutcomes == {NoExc, "TelegramNetworkError"}

\* a registration with LoggingMiddleware first: it is entered before AllowOnly
MessageChainLoggingFirst(a, d, ev, exc, dbok) ==
    LET rest == [trace |-> <<"AllowOnly">>
                           \o (IF a.next_calls = 1 THEN <<"RateLimit">> ELSE <<>>)
                           \o (IF d.calls = 1 THEN <<"handler">> ELSE <<>>),
                 exc |-> IF d.calls = 1 THEN exc
                         ELSE IF a.raised \/ d.raised THEN "Exception" ELSE NoExc]
    IN  LoggingCall(ev, rest, dbok)

\* the middlewares registered on dp.message, outermost first, as they are
\* entered for one message: AllowOnly, then RateLimit when AllowOnly called
\* on, then LoggingMiddleware around the handler when RateLimit called on.
\* An exception of event.answer or of event.from_user.id leaves AllowOnly and
\* RateLimit as it is (class Exception here), one of the handler is re-raised
\* by LoggingMiddleware.
MessageChain(a, d, ev, exc, dbok) ==
    LET lg == LoggingCall(ev, HandlerCall(exc), dbok) IN
    [trace |-> <<"AllowOnly">>
               \o (IF a.next_calls = 1 THEN <<"RateLimit">> ELSE <<>>)
               \o (IF d.calls = 1 THEN lg.trace ELSE <<>>),
     exc |-> IF d.calls = 1 THEN lg.exc
             ELSE IF a.raised \/ d.raised THEN "Exception" ELSE NoExc]

\* an update with a registered handler is dispatched: a message goes through
\* AllowOnly, then RateLimit, then LoggingMiddleware (which awaits the handler
\* once and re-raises), a callback query goes to its handler at once (the
\* admission history is not kept in these runs)
Dispatch(kind, id, dbfail, ansok, strict, exc) ==
    LET ev == [kind |-> kind, user |-> id, command |-> TRUE] IN
    IF ~Guarded(kind)
    THEN /\ auth' = [Inbound(kind, id) EXCEPT !.verdict = "unchecked",
                                              !.handler_calls = 1,
                                              !.raised = exc # NoExc]
         /\ last' = NoDecision
         /\ pipe' = Ran("create_bot", ev, exc, HandlerCall(exc))
         /\ UNCHANGED <<now, variant, bucket, buckets, task, admitted,
                        rate_limits, ALLOWED_USERS, users, retry, wg, backup>>
    ELSE LET r == AllowOnlyCall(users, ALLOWED_USERS, kind, id, dbfail, ansok, strict)
             s0 == [LimState EXCEPT !.task[1].pc = "enter", !.task[1].user = id]
             s == IF r.auth.next_calls = 1
                  THEN RunToDone(s0, 1, ansok)
                  ELSE [LimState EXCEPT !.last = NoDecision]
             seen == [ev EXCEPT !.user = IF r.auth.profile THEN id ELSE NoUser]
             c == MessageChain(r.auth, s.last, seen, exc, ~dbfail)
         IN  /\ users' = r.users
             /\ auth' = [r.auth EXCEPT !.handler_calls = s.last.calls,
                                       !.raised = c.exc # NoExc]
             /\ bucket' = s.bucket
             /\ last' = s.last
             /\ pipe' = Ran("create_bot", ev,
                            IF s.last.calls = 1 THEN exc ELSE NoExc, c)
             /\ UNCHANGED <<now, variant, buckets, task, admitted, rate_limits,
                            ALLOWED_USERS, retry, wg, backup>>

\* the identity whose updates the pipeline runs follow: outside the allow-list
\* <<1>>, inside the other non-empty ones
PipelineUsers == {2}

NextPipeline ==
    \/ \E kind \in Kinds, id \in PipelineUsers \cup {NoUser}, dbfail, ansok, strict \in BOOLEAN,
          exc \in PipelineOutcomes :
            Dispatch(kind, id, dbfail, ansok, strict, exc)
    \/ \E d \in TickSteps : Tick(d)

SpecPipeline == InitPipeline /\ [][NextPipeline]_vars

----------------------------------------------------------------------------
(* The retry wrappers safe_telegram_call and safe_send *)

\* what one invocation of the wrapped operation does: it returns, or raises
\* TelegramRetryAfter, TelegramNetworkError, TelegramBadRequest,
\* TelegramUnauthorizedError, TelegramForbiddenError or another Exception
Outcomes ==
    {"ok", "retry_after", "network", "bad_request", "unauthorized", "forbidden", "other"}

\* a wrapper for which no error is final
PermanentNone == {}

\* the except clauses of lines 92-105, which return None
Permanent == {"bad_request", "unauthorized", "forbidden"}

\* initial_delay as passed by callers: the default and a larger one
InitialDelays == {InitialDelay, 16}

\* e.retry_after, seconds
RetryHints == {1, 4}

\* the wait without the one-second buffer
RetryAfterBare(w) == w

\* wait_time = e.retry_after + 1
RetryAfterSleep(w) == w + 1

\* the doubling without its cap
NextDelayUncapped(delay) == delay * 2

\* delay = min(delay * 2, max_delay)
NextDelay(delay) == Min(delay * 2, MaxDelay)

\* a loop that runs one attempt more
ExhaustedLate(r) == r.attempt > r.max_retries

\* for attempt in range(max_retries): the range is used up
Exhausted(r) == r.attempt >= r.max_retries

\* the head of the for loop; after the loop the wrapper returns None
LoopTop(r) ==
    IF Exhausted(r)
    THEN [r EXCEPT !.pc = "done", !.result = "None"]
    ELSE [r EXCEPT !.pc = "call"]

\* the call of a wrapper with its arguments
StartRetry(fn, max_retries, initial_delay) ==
    LoopTop([IdleRetry EXCEPT !.fn = fn, !.max_retries = max_retries,
                              !.initial_delay = initial_delay,
                              !.delay = initial_delay])

\* the operation has been invoked once more and has ended with outcome
Invoked(r, outcome, w) ==
    [r EXCEPT !.calls = @ + 1, !.last_outcome = outcome,
              !.hint = IF outcome = "retry_after" THEN w ELSE 0,
              !.only_network = @ /\ outcome = "network"]

\* await asyncio.sleep(seconds) has been entered
Sleeping(r, seconds) == [r EXCEPT !.pc = "sleep", !.sleeps = Append(@, seconds)]

\* safe_telegram_call lines 67-113: one attempt, up to its sleep or return
TelegramCallAttempt(r, outcome, w) ==
    LET r1 == Invoked(r, outcome, w) IN
    CASE outcome = "ok" -> [r1 EXCEPT !.pc = "done", !.result = "value"]
      [] outcome = "retry_after" -> Sleeping(r1, RetryAfterSleep(w))
      [] outcome \in Permanent -> [r1 EXCEPT !.pc = "done", !.result = "None"]
      [] OTHER ->
            IF r1.attempt < r1.max_retries - 1
            THEN Sleeping(r1, r1.delay)
            ELSE LoopTop([r1 EXCEPT !.attempt = @ + 1])

\* safe_send lines 7-19: one attempt, up to its sleep, return or raise
SafeSendAttempt(r, outcome, w) ==
    LET r1 == Invoked(r, outcome, w) IN
    CASE outcome = "ok" -> [r1 EXCEPT !.pc = "done", !.result = "value"]
      [] outcome = "retry_after" -> Sleeping(r1, RetryAfterSleep(w))
      [] outcome = "network" -> Sleeping(r1, r1.delay)
      [] OTHER ->
            IF r1.attempt = SafeSendAttempts - 1
            THEN [r1 EXCEPT !.pc = "done", !.result = "raised"]
            ELSE Sleeping(r1, r1.delay)

\* the sleep returns: the delay is doubled after a backoff sleep and the loop
\* goes to its next attempt (lines 81-82, 88-90, 111-113; safe_send 10-19)
AfterSleep(r) ==
    LoopTop([r EXCEPT !.attempt = @ + 1,
                      !.delay = IF r.last_outcome = "retry_after"
                                THEN @ ELSE NextDelay(@)])

\* a wrapper that swallows the cancellation and goes on
OnCancelResume(r) == AfterSleep([r EXCEPT !.cancelled = TRUE])

\* asyncio.sleep raises CancelledError inside the except clause: no clause of
\* the try statement catches it and it leaves the wrapper
OnCancel(r) == [r EXCEPT !.pc = "done", !.result = "raised", !.cancelled = TRUE]

RetryFns == {"safe_telegram_call", "safe_send"}

InitRetry ==
    /\ now = 0
    /\ variant = "retry"
    /\ bucket = [u \in Users |-> <<>>]
    /\ buckets = [u \in Users |-> FreshBucket]
    /\ task = [i \in One |-> FreshTask]
    /\ admitted = [u \in Users |-> <<>>]
    /\ last = NoDecision
    /\ rate_limits = {}
    /\ ALLOWED_USERS = <<>>
    /\ users = {}
    /\ auth = NoAuth
    /\ retry \in {StartRetry("safe_telegram_call", m, d) :
                        m \in 0..MaxRetries, d \in InitialDelays}
                 \cup {StartRetry("safe_send", SafeSendAttempts, InitialDelay)}
    /\ pipe = NoPipe
    /\ wg = IdleWg
    /\ backup = IdleBackup

\* the wrapper awaits the operation, which ends with outcome
RetryAttempt(outcome, w) ==
    /\ retry.pc = "call"
    /\ retry' = IF retry.fn = "safe_send"
                THEN SafeSendAttempt(retry, outcome, w)
                ELSE TelegramCallAttempt(retry, outcome, w)
    /\ UNCHANGED <<limVars, rate_limits, authVars, pipe, wg, backup>>

\* the sleep between two attempts is over
RetryWake ==
    /\ retry.pc = "sleep"
    /\ retry' = AfterSleep(retry)
    /\ UNCHANGED <<limVars, rate_limits, authVars, pipe, wg, backup>>

\* the task is cancelled while the wrapper sleeps
RetryCancel ==
    /\ retry.pc = "sleep"
    /\ retry' = OnCancel(retry)
    /\ UNCHANGED <<limVars, rate_limits, authVars, pipe, wg, backup>>

NextRetry ==
    \/ \E outcome \in Outcomes, w \in RetryHints : RetryAttempt(outcome, w)
    \/ RetryWake
    \/ RetryCancel

SpecRetry == InitRetry /\ [][NextRetry]_vars

\* the awaited operation and the awaited sleep do return
RetryProgress ==
    \/ \E outcome \in Outcomes, w \in RetryHints : RetryAttempt(outcome, w)
    \/ RetryWake

SpecRetryFair == InitRetry /\ [][NextRetry]_vars /\ WF_vars(RetryProgress)

----------------------------------------------------------------------------
(* WireGuardManager.add_client and _execute_wg_command.  A name is the     *)
(* sequence of its characters.                                             *)

Repeat(c, n) == [k \in 1..n |-> c]

LowerCase == {"a", "b", "c", "d", "e", "f", "g", "i", "l", "m", "n", "o", "r", "s", "t", "u", "v", "w"}
UpperCase == {"A", "G", "W"}
Digits == {"0", "1"}

\* str.lower() on one character
Lower(c) ==
    CASE c = "A" -> "a"
      [] c = "G" -> "g"
      [] c = "W" -> "w"
      [] OTHER -> c

LowerName(name) == [k \in 1..Len(name) |-> Lower(name[k])]

\* the class [a-zA-Z0-9_-]
PatternChar(c) == c \in LowerCase \cup UpperCase \cup Digits \cup {"_", "-"}

\* ALLOWED_PATTERN.match(name) with ^[a-zA-Z0-9_-]+$ : one or more characters
\* of the class, then the end of the string or a newline that ends the string
PatternMatch(name) ==
    LET n == Len(name)
        m == IF n >= 1 /\ name[n] = "\n" THEN n - 1 ELSE n
    IN  m >= 1 /\ \A k \in 1..m : PatternChar(name[k])

reserved_names ==
    {<<"s", "e", "r", "v", "e", "r">>, <<"w", "g", "0">>, <<"a", "d", "m", "i", "n">>,
     <<"r", "o", "o", "t">>, <<"d", "e", "f", "a", "u", "l", "t">>,
     <<"c", "o", "n", "f", "i", "g">>}

\* ConfigNameValidator.validate
Validate(name) ==
    IF name = <<>> THEN [ok |-> FALSE, msg |-> "empty"]
    ELSE IF Len(name) < MIN_LENGTH THEN [ok |-> FALSE, msg |-> "too short"]
    ELSE IF Len(name) > MAX_LENGTH THEN [ok |-> FALSE, msg |-> "too long"]
    ELSE IF ~PatternMatch(name) THEN [ok |-> FALSE, msg |-> "characters"]
    ELSE IF LowerName(name) \in reserved_names THEN [ok |-> FALSE, msg |-> "reserved"]
    ELSE [ok |-> TRUE, msg |-> "none"]

\* the names handed to add_client
Names ==
    {<<>>, <<"a", "b">>, <<"a", "b", "c">>, <<"a", "b", "!">>, <<"a", "b", "c", "\n">>,
     <<"w", "g", "0">>, <<"W", "G", "0">>, <<"A", "d", "m", "i", "n">>,
     <<"v", "p", "n", "_", "1">>, Repeat("a", MAX_LENGTH), Repeat("a", MAX_LENGTH + 1)}

\* how one run of the wg-manager process ends: exit status 0, another exit
\* status, or an exception (the process cannot be started, the timeout)
WgOutcomes == {"ok", "nonzero", "exception"}

\* what add_client makes of the pair _execute_wg_command returned, lines 35-38
AddClientReturn(w, success) ==
    IF ~success
    THEN [w EXCEPT !.pc = "done", !.success = FALSE, !.message = "command failed",
                   !.data = [present |-> FALSE, name |-> <<>>]]
    ELSE [w EXCEPT !.pc = "done", !.success = TRUE, !.message = "created",
                   !.data = [present |-> TRUE, name |-> w.name]]

\* _execute_wg_command returns (success, output) to its caller
ExecuteReturn(w, success) ==
    IF w.fn = "add_client"
    THEN AddClientReturn(w, success)
    ELSE [w EXCEPT !.pc = "done", !.success = success,
                   !.message = IF success THEN "stdout"
                               ELSE IF w.outcomes = <<>> THEN "exhausted" ELSE "error"]

\* _execute_wg_command is entered: for attempt in range(retries), and the
\* return after the loop when the loop has no pass
ExecuteStart(w, retries) ==
    LET w1 == [w EXCEPT !.retries = retries, !.attempt = 0] IN
    IF retries > 0 THEN [w1 EXCEPT !.pc = "exec"] ELSE ExecuteReturn(w1, FALSE)

\* an add_client that runs the command whatever the name
AddClientStartUnchecked(name) ==
    ExecuteStart([IdleWg EXCEPT !.fn = "add_client", !.name = name], AddClientRetries)

\* add_client lines 26-33: validate, return on an invalid name, else run the
\* command with three tries
AddClientStart(name) ==
    LET v == Validate(name)
        w == [IdleWg EXCEPT !.fn = "add_client", !.name = name]
    IN  IF ~v.ok
        THEN [w EXCEPT !.pc = "done", !.success = FALSE, !.message = v.msg]
        ELSE ExecuteStart(w, AddClientRetries)

\* a loop that takes the pass after the last one for the last
ExecAttemptOneMore(w, outcome) ==
    LET w1 == [w EXCEPT !.invocations = @ + 1, !.outcomes = Append(@, outcome)] IN
    IF outcome = "ok" THEN ExecuteReturn(w1, TRUE)
    ELSE IF w.attempt = w.retries THEN ExecuteReturn(w1, FALSE)
    ELSE [w1 EXCEPT !.pc = "sleep", !.sleeps = @ + 1]

\* one pass of the loop: the process is created and awaited; exit status 0
\* returns, any other end returns on the last pass and sleeps otherwise
ExecAttempt(w, outcome) ==
    LET w1 == [w EXCEPT !.invocations = @ + 1, !.outcomes = Append(@, outcome)] IN
    IF outcome = "ok" THEN ExecuteReturn(w1, TRUE)
    ELSE IF w.attempt = w.retries - 1 THEN ExecuteReturn(w1, FALSE)
    ELSE [w1 EXCEPT !.pc = "sleep", !.sleeps = @ + 1]

\* asyncio.sleep(1) is over: the next pass of the loop
ExecWake(w) == [w EXCEPT !.pc = "exec", !.attempt = @ + 1]

InitWg ==
    /\ now = 0
    /\ variant = "wg"
    /\ bucket = [u \in Users |-> <<>>]
    /\ buckets = [u \in Users |-> FreshBucket]
    /\ task = [i \in One |-> FreshTask]
    /\ admitted = [u \in Users |-> <<>>]
    /\ last = NoDecision
    /\ NonLimIdle

\* a handler awaits add_client(name, user_id)
AddClient(name) ==
    /\ wg.pc \in {"idle", "done"}
    /\ wg' = AddClientStart(name)
    /\ UNCHANGED <<limVars, rate_limits, authVars, retry, pipe, backup>>

\* a caller awaits _execute_wg_command(args, retries)
ExecuteWgCommand(retries) ==
    /\ wg.pc \in {"idle", "done"}
    /\ wg' = ExecuteStart([IdleWg EXCEPT !.fn = "_execute_wg_command"], retries)
    /\ UNCHANGED <<limVars, rate_limits, authVars, retry, pipe, backup>>

\* the wg-manager process of the current pass ends
WgAttempt(outcome) ==
    /\ wg.pc = "exec"
    /\ wg' = ExecAttempt(wg, outcome)
    /\ UNCHANGED <<limVars, rate_limits, authVars, retry, pipe, backup>>

WgWake ==
    /\ wg.pc = "sleep"
    /\ wg' = ExecWake(wg)
    /\ UNCHANGED <<limVars, rate_limits, authVars, retry, pipe, backup>>

NextWg ==
    \/ \E name \in Names : AddClient(name)
    \/ \E retries \in 0..MaxWgRetries : ExecuteWgCommand(retries)
    \/ \E outcome \in WgOutcomes : WgAttempt(outcome)
    \/ WgWake

SpecWg == InitWg /\ [][NextWg]_vars

----------------------------------------------------------------------------
(* BackupService.restore_backup *)

\* the archives a restore may be asked for, and the one create_backup writes
\* for backup_type 'pre_restore'
BackupIds == {"manual", "daily"}
PreRestoreId == "pre_restore"

\* how the systemctl process of _stop_wireguard / _start_wireguard ends
ServiceOutcomes == {"ok", "nonzero", "exception"}

\* restore_backup returns (success, message)
RestoreReturn(b, success, message) ==
    [b EXCEPT !.pc = "done", !.success = success, !.message = message]

\* restore_backup lines 82-92: the archive must exist, then create_backup is
\* awaited
RestoreStart(b, id) ==
    LET b1 == [b EXCEPT !.id = id, !.calls = <<>>, !.success = FALSE,
                        !.message = "none"]
    IN  IF id \notin b.files
        THEN RestoreReturn(b1, FALSE, "not found")
        ELSE [b1 EXCEPT !.pc = "create_backup",
                        !.calls = Append(@, "create_backup")]

\* restore_backup lines 92-97: create_backup has returned; without a
\* pre-restore archive the restore is given up, else _stop_wireguard is awaited
RestorePreRestore(b, ok) ==
    IF ~ok
    THEN RestoreReturn(b, FALSE, "no pre-restore backup")
    ELSE [b EXCEPT !.files = @ \cup {PreRestoreId}, !.pc = "stop",
                   !.calls = Append(@, "stop")]

\* restore_backup lines 97-104 with _stop_wireguard: the result of the stop is
\* not looked at; the archive is extracted, and an exception of the extraction
\* goes to the except clause of line 115; else _start_wireguard is awaited
RestoreExtract(b, outcome, extracted) ==
    LET b1 == [b EXCEPT !.service = IF outcome = "ok" THEN "stopped" ELSE @,
                        !.calls = Append(@, "extract")]
    IN  IF ~extracted
        THEN RestoreReturn([b1 EXCEPT !.config = "partial"], FALSE, "restore error")
        ELSE [b1 EXCEPT !.config = b.id, !.pc = "start",
                        !.calls = Append(@, "start")]

\* restore_backup lines 104-113 with _start_wireguard: the result of the start
\* is not looked at
RestoreFinish(b, outcome) ==
    RestoreReturn([b EXCEPT !.service = IF outcome = "ok" THEN "running" ELSE @],
                  TRUE, "restored")

InitBackup ==
    /\ now = 0
    /\ variant = "backup"
    /\ bucket = [u \in Users |-> <<>>]
    /\ buckets = [u \in Users |-> FreshBucket]
    /\ task = [i \in One |-> FreshTask]
    /\ admitted = [u \in Users |-> <<>>]
    /\ last = NoDecision
    /\ rate_limits = {}
    /\ ALLOWED_USERS = <<>>
    /\ users = {}
    /\ auth = NoAuth
    /\ retry = IdleRetry
    /\ pipe = NoPipe
    /\ wg = IdleWg
    /\ backup \in {[IdleBackup EXCEPT !.files = f, !.service = sv] :
                      f \in SUBSET BackupIds, sv \in {"running", "stopped"}}

\* a handler awaits restore_backup(backup_id, user_id)
RestoreBackup(id) ==
    /\ backup.pc \in {"idle", "done"}
    /\ backup' = RestoreStart(backup, id)
    /\ UNCHANGED <<limVars, rate_limits, authVars, retry, pipe, wg>>

\* create_backup('pre_restore', user_id) returns
PreRestoreDone(ok) ==
    /\ backup.pc = "create_backup"
    /\ backup' = RestorePreRestore(backup, ok)
    /\ UNCHANGED <<limVars, rate_limits, authVars, retry, pipe, wg>>

\* the systemctl stop ends and the archive is extracted
StopDone(outcome, extracted) ==
    /\ backup.pc = "stop"
    /\ backup' = RestoreExtract(backup, outcome, extracted)
    /\ UNCHANGED <<limVars, rate_limits, authVars, retry, pipe, wg>>

\* the systemctl start ends
StartDone(outcome) ==
    /\ backup.pc = "start"
    /\ backup' = RestoreFinish(backup, outcome)
    /\ UNCHANGED <<limVars, rate_limits, authVars, retry, pipe, wg>>

NextBackup ==
    \/ \E id \in BackupIds \cup {PreRestoreId} : RestoreBackup(id)
    \/ \E ok \in BOOLEAN : PreRestoreDone(ok)
    \/ \E outcome \in ServiceOutcomes, extracted \in BOOLEAN : StopDone(outcome, extracted)
    \/ \E outcome \in ServiceOutcomes : StartDone(outcome)

SpecBackup == InitBackup /\ [][NextBackup]_vars

----------------------------------------------------------------------------
(* Claims about the sliding window *)

\* the admissions of history h whose time lies in the closed interval [x - 60, x]
WindowCount(h, x) ==
    Cardinality({k \in 1..Len(h) : x - Window <= h[k] /\ h[k] <= x})

\* the admissions of history h whose time lies in the closed interval [x, x + 60]
CountFrom(h, x) ==
    Cardinality({k \in 1..Len(h) : x <= h[k] /\ h[k] <= x + Window})

\* the limit the installed limiter is configured with
ConfiguredLimit ==
    IF variant = "progressive" THEN MAX_COMMANDS_PER_MINUTE ELSE per_user_per_min

\* C1: for events processed in timestamp order, FastRateLimit and RateLimit never
\* admit more than `limit` events of one identity whose admission times lie in
\* one 60-second interval; an interval that holds the most admissions can be
\* taken to start at an admission, so those are the intervals examined.
C1_WindowNeverOverLimit ==
    \A u \in Users : \A k \in 1..Len(admitted[u]) :
        CountFrom(admitted[u], admitted[u][k]) <= per_user_per_min

\* C1 witness: the window has slid (more than `limit` admissions in all) and a
\* further event is denied because the current window is full again.
C1_Witness ==
    \E u \in Users :
        /\ Len(admitted[u]) > per_user_per_min
        /\ WindowCount(admitted[u], now) = per_user_per_min
        /\ last.user = u /\ last.outcome = "denied" /\ last.t = now

\* the step is one event of identity u run through FastRateLimit or RateLimit
SlidingEventOf(u) == now' = now /\ last'.user = u

\* admissions of history h with a timestamp from a to b
Between(h, a, b) == Cardinality({k \in 1..Len(h) : a <= h[k] /\ h[k] <= b})

\* the admission at f found the bucket empty of anything younger than 60 s
Fresh(h, f) ==
    /\ \E k \in 1..Len(h) : h[k] = f
    /\ \A k \in 1..Len(h) : h[k] < f => f - h[k] > Window

\* C14: counting from an admission f that found the bucket empty, events up to
\* the limit-th within 59 s of f are admitted, a further event within 60 s of f
\* is denied, and an event 61 s after f, when f has aged out, is admitted.
C14_WindowBoundary ==
    [][\A u \in Users :
          SlidingEventOf(u) =>
              LET h == admitted[u] IN
              /\ (\A k \in 1..Len(h) : now - h[k] > Window) => last'.outcome = "admitted"
              /\ \A f \in {h[k] : k \in 1..Len(h)} :
                    Fresh(h, f) =>
                        /\ (now - f <= 59 /\ Between(h, f, now) < per_user_per_min)
                              => last'.outcome = "admitted"
                        /\ (now - f <= Window /\ Between(h, f, now) >= per_user_per_min)
                              => last'.outcome = "denied"
                        /\ (now - f = Window + 1
                              /\ Between(h, f + 1, now) < per_user_per_min)
                              => last'.outcome = "admitted"]_vars

\* a full burst within 59 s of its first event, and an event admitted 61 s
\* after that first event
C14_Witness ==
    \E u \in Users :
        /\ last.user = u /\ last.outcome = "admitted" /\ last.t = now
        /\ now >= Window + 1
        /\ Fresh(admitted[u], now - (Window + 1))
        /\ Between(admitted[u], now - (Window + 1), now - 2) = per_user_per_min
        /\ last.calls = 1

\* C3: whatever the interleaving of concurrently processed events at await
\* points, the admissions of one identity that fall within 60 seconds up to any
\* admission never exceed the configured limit (no two events both pass the
\* length check on the same count).
C3_NoConcurrentOvershoot ==
    \A u \in Users : \A k \in 1..Len(admitted[u]) :
        WindowCount(admitted[u], admitted[u][k]) <= ConfiguredLimit

\* C3 witness: `limit` events of one identity are suspended in their handlers at
\* the same time while a further concurrent event of that identity is suspended
\* in its denial notice.
C3_Witness ==
    \E u \in Users :
        /\ Cardinality({i \in Events : task[i].user = u /\ task[i].pc = "handler"})
              = ConfiguredLimit
        /\ \E i \in Events : task[i].user = u /\ task[i].pc = "notify"

\* C4: whatever the interleaving at await points, RateLimitMiddleware admits at
\* most MAX_COMMANDS_PER_MINUTE events of one user for one minute window (the
\* store itself never failing).
C4_NoOvershootPerMinute ==
    \A u \in Users : \A k \in 1..Len(admitted[u]) :
        Cardinality({j \in 1..Len(admitted[u]) :
                        WindowStart(admitted[u][j]) = WindowStart(admitted[u][k])})
            <= MAX_COMMANDS_PER_MINUTE

\* task i runs its admission check in this step and reaches the pruning
PrunesIn(i) ==
    /\ task[i].pc = "enter" /\ task'[i].pc # "enter"
    /\ task[i].user # NoUser
    /\ ~(variant = "progressive" /\ InPenalty(buckets[task[i].user], now))

\* what the pruning of this step kept: the stored timestamps, less the one
\* appended after the pruning when the event was admitted
KeptBy(i) ==
    LET u == task[i].user
        stored == IF variant = "progressive" THEN buckets'[u].commands ELSE bucket'[u]
    IN  IF task'[i].pc = "handler" THEN SubSeq(stored, 1, Len(stored) - 1) ELSE stored

\* C30: right after the pruning of an admission check of FastRateLimit,
\* RateLimit or ProgressiveRateLimit every timestamp kept for the identity is
\* at most 60 seconds older than now and none is later than now, and the
\* kept timestamps are in non-decreasing order.
C30_PrunedWindowOrdered ==
    [][\A i \in Events :
          PrunesIn(i) =>
              LET kept == KeptBy(i) IN
              /\ \A k \in 1..Len(kept) : now - kept[k] >= 0 /\ now - kept[k] <= Window
              /\ \A k \in 1..(Len(kept) - 1) : kept[k] <= kept[k + 1]]_vars

C30_Witness ==
    \E u \in Users, i \in Events :
        /\ task[i].user = u /\ task[i].pc = "handler"
        /\ Len(admitted[u]) = 3
        /\ now - admitted[u][1] > Window
        /\ bucket[u] = <<admitted[u][2], now>>

----------------------------------------------------------------------------
(* Claims about the progressive penalty *)

\* the step is an event of identity u decided at the current instant
DecidesFor(u) == last' # last /\ last'.user = u /\ last'.t = now

\* C9: an identity with violations > 0 whose most recent violation is more than
\* 86400 s old is judged against the full base limit: an attempt that finds fewer
\* than base_limit admissions in the trailing 60 s is admitted, whatever was
\* admitted in between.
C9_FullLimitAfterCleanDay ==
    [][\A u \in ProgUsers :
          (/\ buckets[u].violations > 0
           /\ now - buckets[u].last_violation > DayClean
           /\ DecidesFor(u)
           /\ Len(PruneFilter(buckets[u].commands, now)) < MAX_COMMANDS_PER_MINUTE)
          => last'.outcome = "admitted"]_vars

\* the penalties of the claim, violation by violation
PenaltyTable(k) ==
    CASE k = 1 -> 30
      [] k = 2 -> 60
      [] k = 3 -> 120
      [] k = 4 -> 240
      [] OTHER -> 300

\* C10: the k-th violation recorded since the counter was last zero sets
\* penalty_until = now + min(300, 30 * 2^(k-1)): 30, 60, 120, 240 and 300 s from
\* the fifth on, and the denial carries that retry_after.
C10_PenaltyEscalation ==
    last.violation =>
        LET b == buckets[last.user] IN
        /\ b.violations >= 1
        /\ b.last_violation = last.t
        /\ b.penalty_until = last.t + PenaltyTable(b.violations)
        /\ last.retry_after = PenaltyTable(b.violations)

\* C10 witness: the sixth violation in a row has just been recorded and its
\* penalty is the capped 300 s.
C10_Witness ==
    /\ last.violation
    /\ buckets[last.user].violations = 6
    /\ buckets[last.user].penalty_until - last.t = 300

\* the step is one event of identity u run through ProgressiveRateLimit
ProgEventOf(u) == now' = now /\ last'.user = u

\* C11: while now < penalty_until every event of the identity is denied with
\* retry_after = penalty_until - now, the handler is not invoked and commands,
\* violations, last_violation and penalty_until stay as they are.
C11_PenaltyFrame ==
    [][\A u \in ProgUsers :
          (ProgEventOf(u) /\ now < buckets[u].penalty_until) =>
              /\ last'.outcome = "denied"
              /\ last'.retry_after = buckets[u].penalty_until - now
              /\ last'.calls = 0
              /\ ~last'.violation
              /\ buckets'[u] = buckets[u]]_vars

\* an event was denied part-way through a running penalty
C11_Witness ==
    \E u \in ProgUsers :
        /\ last.user = u /\ last.outcome = "denied" /\ ~last.violation
        /\ last.t = now /\ now > buckets[u].last_violation
        /\ now < buckets[u].penalty_until
        /\ last.retry_after = buckets[u].penalty_until - now
        /\ Len(buckets[u].commands) > 0

\* the identity's admitted timestamps that lie within the trailing 60 s
InWindow(cmds, t) == Cardinality({k \in 1..Len(cmds) : t - cmds[k] <= Window})

\* C12: an event that gets past the penalty test is admitted exactly when the
\* identity's admitted timestamps of the trailing 60 s number fewer than
\* max(1, base_limit - violations); that limit lies between 1 and base_limit.
C12_AdmitIffUnderEffectiveLimit ==
    [][\A u \in ProgUsers :
          (ProgEventOf(u) /\ now >= buckets[u].penalty_until) =>
              LET lim == Max(1, MAX_COMMANDS_PER_MINUTE - buckets[u].violations) IN
              /\ last'.outcome = "admitted" <=> InWindow(buckets[u].commands, now) < lim
              /\ last'.outcome \in {"admitted", "denied"}
              /\ last'.limit = lim
              /\ lim >= 1 /\ lim <= MAX_COMMANDS_PER_MINUTE]_vars

\* an offender with base_limit or more violations is admitted under limit 1
C12_Witness ==
    \E u \in ProgUsers :
        /\ last.user = u /\ last.outcome = "admitted" /\ last.limit = 1
        /\ buckets[u].violations >= MAX_COMMANDS_PER_MINUTE
        /\ last.calls = 1

\* C13: for an identity with a recorded violation penalty_until >= last_violation,
\* and each new violation moves penalty_until strictly forward.
C13_PenaltyMonotonic ==
    /\ [](\A u \in ProgUsers :
             buckets[u].violations > 0 =>
                 buckets[u].penalty_until >= buckets[u].last_violation)
    /\ [][\A u \in ProgUsers :
             buckets'[u].violations > buckets[u].violations =>
                 buckets'[u].penalty_until > buckets[u].penalty_until]_vars

\* a second violation, recorded after the first penalty has run out
C13_Witness ==
    \E u \in ProgUsers :
        /\ last.user = u /\ last.violation
        /\ buckets[u].violations = 2
        /\ buckets[u].last_violation = last.t
        /\ last.t >= PenaltyBase

----------------------------------------------------------------------------
(* Claims about the retry wrapper *)

\* the call on record is one of safe_telegram_call
TelegramCall == retry.fn = "safe_telegram_call"

\* the step invokes the operation once
InvokesOperation == retry.pc = "call" /\ retry'.calls = retry.calls + 1

PermanentErrors == {"bad_request", "unauthorized", "forbidden"}

\* C15: safe_telegram_call terminates, having invoked the operation at most
\* max_retries times; when every attempt raises a transient network error it
\* invokes it exactly max_retries times and returns None.
C15_BoundedAttempts ==
    /\ [](TelegramCall =>
            /\ retry.calls <= retry.max_retries
            /\ (retry.pc = "done" /\ retry.only_network /\ ~retry.cancelled) =>
                  (retry.calls = retry.max_retries /\ retry.result = "None"))
    /\ <>(TelegramCall => retry.pc = "done")

C15_Witness ==
    /\ TelegramCall /\ retry.pc = "done" /\ retry.only_network
    /\ retry.max_retries = MaxRetries /\ retry.calls = MaxRetries
    /\ Len(retry.sleeps) = MaxRetries - 1
    /\ retry.result = "None"

\* C16: whatever the operation does, the retry wrapper ends with the
\* operation's result or None and no exception leaves it, the failure that uses
\* up the attempt budget included.
C16_NeverRaises ==
    (retry.pc = "done" /\ ~retry.cancelled) => retry.result \in {"value", "None"}

\* C17: an attempt that raises a permanent provider error makes
\* safe_telegram_call return None at once, with no sleep and no further
\* invocation, whatever attempts remain.
C17_PermanentStops ==
    [][(TelegramCall /\ InvokesOperation /\ retry'.last_outcome \in PermanentErrors) =>
          /\ retry'.pc = "done"
          /\ retry'.result = "None"
          /\ retry'.sleeps = retry.sleeps]_vars

\* a permanent error on a second attempt, with attempts left
C17_Witness ==
    /\ TelegramCall /\ retry.pc = "done" /\ retry.last_outcome \in PermanentErrors
    /\ retry.calls = 2 /\ retry.max_retries > 2
    /\ retry.result = "None"

C19_RetryAfterHonoured ==
    [][/\ (TelegramCall /\ InvokesOperation /\ retry'.last_outcome = "retry_after") =>
            /\ retry'.pc = "sleep"
            /\ retry'.sleeps = Append(retry.sleeps, retry'.hint + 1)
            /\ retry'.delay = retry.delay
       /\ (TelegramCall /\ retry.pc = "sleep" /\ retry.last_outcome = "retry_after"
             /\ ~retry'.cancelled) =>
            /\ retry'.delay = retry.delay
            /\ retry'.attempt = retry.attempt + 1
            /\ retry'.pc = IF retry'.attempt < retry.max_retries THEN "call" ELSE "done"]_vars

\* a network error, a rate-limit signal with hint 4, a network error: the
\* second backoff sleep is the doubled delay, not a quadrupled one
C19_Witness ==
    /\ TelegramCall
    /\ retry.sleeps = <<InitialDelay, 5, 2 * InitialDelay>>
    /\ retry.calls = 3

\* C20: when the task is cancelled during a sleep between attempts, the
\* wrapper ends there and the operation is not invoked again.
C20_CancelStopsRetries ==
    [][/\ (TelegramCall /\ retry'.cancelled /\ ~retry.cancelled) =>
            (retry'.pc = "done" /\ retry'.calls = retry.calls)
       /\ (TelegramCall /\ retry.cancelled) => retry'.calls = retry.calls]_vars

\* cancelled in the first sleep, with attempts left
C20_Witness ==
    /\ TelegramCall /\ retry.cancelled /\ retry.pc = "done"
    /\ retry.calls = 1 /\ retry.max_retries > 2
    /\ Len(retry.sleeps) = 1

----------------------------------------------------------------------------
(* Claims about authorization *)

\* the event on record came from an identity outside a non-empty allow-list
OutsiderEvent ==
    /\ auth.kind # "none"
    /\ auth.user # NoUser
    /\ ALLOWED_USERS # <<>>
    /\ auth.user \notin Allowed(ALLOWED_USERS)

\* C5: with a non-empty allow-list an event of an identity outside it is denied
\* by each authorization middleware, neither the next stage nor the handler is
\* called, whatever profile is stored; a missing identity is not authorized.
C5_OutsiderDenied ==
    /\ OutsiderEvent =>
          auth.verdict = "denied" /\ auth.next_calls = 0 /\ auth.handler_calls = 0
    /\ ~IsAuthorized(ALLOWED_USERS, NoUser)

C5_Witness ==
    /\ OutsiderEvent
    /\ auth.verdict = "denied"
    /\ Profile(users, auth.user) # {}

\* C6: with an empty allow-list every event that carries an identity reaches
\* the handler, in each authorization variant.
C6_OpenModeAllowsAll ==
    (auth.kind # "none" /\ auth.user # NoUser /\ ALLOWED_USERS = <<>>) =>
        auth.handler_calls = 1

\* C7: a profile created by an authorization has is_admin = true exactly when
\* its identity is the first entry of the configured allow-list.
C7_AdminIsFirstEntry ==
    auth.created =>
        \A r \in Profile(users, auth.user) :
            r.is_admin <=> (ALLOWED_USERS # <<>> /\ auth.user = ALLOWED_USERS[1])

\* C8: when fetch-or-create fails for an allowed identity the handler is still
\* called exactly once, with the identity and without a profile in the context,
\* and nothing is sent to the user.
C8_PersistenceFailureNonBlocking ==
    (auth.db_failed /\ auth.verdict = "allowed") =>
        /\ auth.handler_calls = 1
        /\ auth.identity /\ ~auth.profile
        /\ auth.sent = "none"

\* the sender's bucket already holds per_user_per_min events of the last minute
BudgetExhausted(id) ==
    id # NoUser /\ OverLimit(PruneFront(bucket[id], now), per_user_per_min)

\* C2: in the pipeline of create_bot the handler of an inbound message or
\* callback query is invoked at most once, and not at all when the sender is
\* outside a non-empty allow-list or has used up the rate budget.
C2_HandlerGuarded ==
    [][(now' = now /\ auth'.kind # "none") =>
          /\ auth'.handler_calls <= 1
          /\ (ALLOWED_USERS # <<>> /\ auth'.user # NoUser
                /\ auth'.user \notin Allowed(ALLOWED_USERS)) => auth'.handler_calls = 0
          /\ BudgetExhausted(auth'.user) => auth'.handler_calls = 0]_vars

----------------------------------------------------------------------------
(* Claims about error handling and the layers around the handler *)

\* how often record x stands in a trace, and where it stands first
Count(tr, x) == Cardinality({k \in 1..Len(tr) : tr[k] = x})
IndexOf(tr, x) == CHOOSE k \in 1..Len(tr) : tr[k] = x /\ \A j \in 1..(k - 1) : tr[j] # x

\* C21: in the pipeline of create_bot no exception raised by the handler or by
\* a middleware leaves the pipeline towards the dispatcher: the error
\* classifier, as outermost layer, catches every one of them.
C21_NoEscape ==
    pipe.stack = "create_bot" => pipe.raised = NoExc

\* C22: GlobalErrorHandler.__call__ returns normally whatever the wrapped
\* handler raised, also when sending the error message to the user fails.
C22_ErrorHandlerNeverRaises ==
    pipe.stack = "errors" => pipe.raised = NoExc

C22_Witness ==
    /\ pipe.stack = "errors"
    /\ pipe.exc = "ValueError"
    /\ Count(pipe.trace, "Could not send error message") = 1
    /\ pipe.raised = NoExc

\* the kinds of failure for which the user gets no message
SilentKinds == {"TelegramUnauthorizedError", "TelegramForbiddenError"}

\* C23: when the handler raises, AuditMiddleware records COMMAND_ERROR exactly
\* once and no COMMAND_SUCCESS and re-raises (the classifier around it records
\* the failure after it), and GlobalErrorHandler attempts the message to the
\* user exactly once, except for an auth failure of the bot and for a
\* forbidden error, where it attempts none.
C23_OneAuditOneMessage ==
    (pipe.stack = "errors" /\ pipe.exc # NoExc) =>
        /\ Count(pipe.trace, "COMMAND_ERROR") = 1
        /\ Count(pipe.trace, "COMMAND_SUCCESS") = 0
        /\ Count(pipe.trace, "handler") = 1
        /\ \E k \in 1..Len(pipe.trace) :
              /\ k > IndexOf(pipe.trace, "COMMAND_ERROR")
              /\ pipe.trace[k] \in {"BOT_UNAUTHORIZED", "TELEGRAM_FORBIDDEN",
                                    "TELEGRAM_BAD_REQUEST", "TELEGRAM_RATE_LIMIT",
                                    "TELEGRAM_NETWORK_ERROR", "TELEGRAM_API_ERROR",
                                    "UNHANDLED_ERROR"}
        /\ Count(pipe.trace, "answer") = IF pipe.exc \in SilentKinds THEN 0 ELSE 1

C23_Witness ==
    /\ pipe.stack = "errors"
    /\ pipe.exc = "TelegramServerError"
    /\ pipe.trace = <<"handler", "COMMAND_ERROR", "TELEGRAM_API_ERROR", "answer">>

\* C24: LoggingMiddleware writes exactly one incoming_request record, before
\* the handler is invoked, and exactly one request_completed record, after the
\* handler returned or raised, whose status is 'error' exactly when the
\* handler raised; the exception of the handler leaves the middleware after
\* the completion record.
C24_EntryAndExitRecords ==
    pipe.stack = "logging" =>
        LET tr == pipe.trace
            done == Count(tr, "request_completed error") + Count(tr, "request_completed success")
            exit == IF pipe.exc # NoExc THEN "request_completed error"
                    ELSE "request_completed success"
        IN  /\ Count(tr, "incoming_request") = 1
            /\ Count(tr, "handler") = 1
            /\ done = 1
            /\ Count(tr, exit) = 1
            /\ IndexOf(tr, "incoming_request") < IndexOf(tr, "handler")
            /\ IndexOf(tr, "handler") < IndexOf(tr, exit)
            /\ pipe.raised = pipe.exc

C24_Witness ==
    /\ pipe.stack = "logging"
    /\ pipe.exc = "TelegramBadRequest"
    /\ pipe.raised = "TelegramBadRequest"
    /\ Count(pipe.trace, "request_completed error") = 1

\* C25: a denial by the rate limiter or by the authorization ends the call of
\* the middleware with a normal return and without a call of the handler,
\* also when the notice to the user cannot be sent.
C25_DenialReturnsNormally ==
    (pipe.stack = "create_bot" /\ (auth.verdict = "denied" \/ last.outcome = "denied")) =>
        /\ auth.handler_calls = 0
        /\ ~auth.raised

\* C26: no authorization turns the is_admin flag of a stored profile from
\* true to false.
C26_AdminNeverDemoted ==
    [][\A r \in users :
          r.is_admin =>
              /\ Profile(users', r.telegram_id) # {}
              /\ \A q \in Profile(users', r.telegram_id) : q.is_admin]_vars

C26_Witness ==
    /\ auth.verdict = "allowed"
    /\ auth.profile /\ ~auth.created
    /\ ALLOWED_USERS # <<>>
    /\ ~AdminFlag(variant, ALLOWED_USERS, auth.user)
    /\ \E r \in Profile(users, auth.user) : r.is_admin

\* C27: a denial writes exactly one security record, and the record is the
\* same under every other non-empty allow-list of the same size that excludes
\* the identity.
C27_DenialRecordSizeOnly ==
    auth.verdict = "denied" =>
        LET rec == SecurityRecord(variant, ALLOWED_USERS, auth.user) IN
        /\ Len(rec) = 1
        /\ \A other \in AllowLists :
              (other # <<>> /\ Len(other) = Len(ALLOWED_USERS)
                 /\ auth.user \notin Allowed(other)) =>
                    SecurityRecord(variant, other, auth.user) = rec

----------------------------------------------------------------------------
(* Claims about the order of the pipeline *)

\* the entry and exit records of the audit of requests
AuditEntries == {"incoming_request", "request_completed error", "request_completed success"}

\* tr holds x and y, x first
Before(tr, x, y) ==
    Count(tr, x) >= 1 /\ Count(tr, y) >= 1 /\ IndexOf(tr, x) < IndexOf(tr, y)

\* C28: for every inbound message the authorization decides first, then the
\* rate limiter checks, then the audit entry is written and the handler runs;
\* a message denied by the authorization changes no rate bucket and leaves no
\* audit entry.
C28_AuthThenRateThenAudit ==
    [][(now' = now /\ pipe'.stack = "create_bot" /\ pipe'.kind = "message") =>
          LET tr == pipe'.trace IN
          /\ Len(tr) >= 1 /\ tr[1] = "AllowOnly" /\ Count(tr, "AllowOnly") = 1
          /\ Count(tr, "RateLimit") >= 1 => Before(tr, "AllowOnly", "RateLimit")
          /\ Count(tr, "incoming_request") >= 1 => Before(tr, "RateLimit", "incoming_request")
          /\ Count(tr, "handler") >= 1 =>
                (Before(tr, "RateLimit", "handler") /\ Before(tr, "incoming_request", "handler"))
          /\ auth'.verdict = "denied" =>
                /\ bucket' = bucket
                /\ last' = NoDecision
                /\ \A k \in 1..Len(tr) : tr[k] \notin AuditEntries
                /\ Count(tr, "handler") = 0]_vars

C28_Witness ==
    /\ pipe.stack = "create_bot" /\ pipe.kind = "message"
    /\ auth.verdict = "denied"
    /\ pipe.trace = <<"AllowOnly">>
    /\ now > 0

----------------------------------------------------------------------------
(* Claims about WireGuardManager *)

\* add_client has returned
AddClientDone == wg.fn = "add_client" /\ wg.pc = "done"

NoData == [present |-> FALSE, name |-> <<>>]

\* C29: add_client never raises; it returns (False, message, None) without
\* running the wg-manager command when the name fails validation,
\* (False, message, None) when the command fails, and
\* (True, message, {'name': name}) only when the name is valid and the
\* command succeeded.
C29_AddClientTriple ==
    /\ wg.fn = "add_client" =>
          /\ ~wg.raised
          /\ ~Validate(wg.name).ok => (wg.invocations = 0 /\ wg.pc = "done")
    /\ AddClientDone =>
          /\ wg.message # "none"
          /\ ~Validate(wg.name).ok => (~wg.success /\ wg.data = NoData)
          /\ (Validate(wg.name).ok /\ wg.outcomes # <<>>
                /\ wg.outcomes[Len(wg.outcomes)] # "ok") =>
                (~wg.success /\ wg.data = NoData /\ wg.message = "command failed")
          /\ wg.success <=>
                (Validate(wg.name).ok /\ wg.outcomes # <<>>
                    /\ wg.outcomes[Len(wg.outcomes)] = "ok")
          /\ wg.success => wg.data = [present |-> TRUE, name |-> wg.name]

C29_Witness ==
    /\ AddClientDone
    /\ ~wg.success
    /\ wg.outcomes = <<"nonzero", "exception", "nonzero">>
    /\ wg.message = "command failed"

----------------------------------------------------------------------------
(* Claims about the effect of a denial *)

\* C31: when FastRateLimit or RateLimit denies an event, the bucket of the
\* identity holds afterwards exactly its timestamps of the last 60 seconds, in
\* their order and without the time of the denied event, and the bucket of
\* every other identity is as it was.
C31_DenialLeavesBuckets ==
    [][\A u \in Users :
          (SlidingEventOf(u) /\ last'.outcome = "denied") =>
              /\ bucket'[u] = SelectSeq(bucket[u], LAMBDA x : now - x <= Window)
              /\ Len(bucket'[u]) >= per_user_per_min
              /\ \A o \in Users \ {u} : bucket'[o] = bucket[o]
              /\ admitted' = admitted]_vars

\* a denial at an instant the bucket does not hold, beside another identity
\* whose bucket is not empty
C31_Witness ==
    \E u \in Users : \E o \in Users \ {u} :
        /\ last.user = u /\ last.outcome = "denied" /\ last.t = now
        /\ bucket[o] # <<>>
        /\ Len(bucket[u]) = per_user_per_min
        /\ \A k \in 1..Len(bucket[u]) : bucket[u][k] < now

----------------------------------------------------------------------------
(* Claims about RateLimitMiddleware with events one after another *)

\* C32: with events processed one after another and a store that answers, no
\* identity has more than MAX_COMMANDS_PER_MINUTE admissions in any interval
\* of 60 seconds, whichever calendar minutes the interval covers.
C32_RollingMinuteLimit ==
    \A u \in Users : \A a \in 0..MaxNow :
        Between(admitted[u], a, a + Window - 1) <= MAX_COMMANDS_PER_MINUTE

\* an event of identity u goes through RateLimitMiddleware in this step
DbEventOf(u) == now' = now /\ last' # last /\ last'.user = u /\ last'.t = now

\* C38: when a statement of the rate-limit store fails during the check of an
\* event (the select, the commit or the delete of the cleanup), the event is
\* admitted: the handler is called exactly once, no throttling notice is sent
\* and the event does not raise.
C38_FailOpen ==
    [][\A u \in One :
          (DbEventOf(u) /\ last'.fault) =>
              /\ last'.outcome = "admitted"
              /\ last'.calls = 1
              /\ ~last'.notified
              /\ ~last'.raised
              /\ admitted'[u] = Append(admitted[u], now)]_vars

\* the store failed for an event whose minute already held the full count
C38_Witness ==
    /\ last.fault /\ last.user \in One /\ last.t = now
    /\ last.outcome = "admitted" /\ last.calls = 1
    /\ \E r \in rate_limits :
          /\ r.user_id = last.user /\ r.window_start = WindowStart(now)
          /\ r.command_count >= MAX_COMMANDS_PER_MINUTE

----------------------------------------------------------------------------
(* Claims about WireGuardManager._execute_wg_command *)

\* the outcomes before the last one
Earlier(o) == {o[k] : k \in 1..(Len(o) - 1)}

----------------------------------------------------------------------------
(* Claims about the way out of a penalty of ProgressiveRateLimit *)

\* C34: an event of an identity that arrives when now >= penalty_until and
\* every admitted timestamp of the identity is more than 60 s old is admitted
\* and reaches the handler, whatever the count of violations.
C34_NoPermanentLockout ==
    [][\A u \in ProgUsers :
          (/\ ProgEventOf(u)
           /\ now >= buckets[u].penalty_until
           /\ \A k \in 1..Len(buckets[u].commands) :
                 now - buckets[u].commands[k] > Window)
          => (/\ last'.outcome = "admitted"
              /\ last'.calls = 1
              /\ last'.t = now
              /\ buckets'[u].commands = <<now>>)]_vars

\* an offender under the floor limit of 1 is admitted again once its penalty
\* is over and its admissions have aged out
C34_Witness ==
    \E u \in ProgUsers :
        /\ last.user = u /\ last.outcome = "admitted" /\ last.t = now
        /\ buckets[u].violations >= MAX_COMMANDS_PER_MINUTE
        /\ buckets[u].penalty_until > 0
        /\ buckets[u].penalty_until <= now
        /\ buckets[u].commands = <<now>>

\* C35: when a violation is recorded for an identity that already has one,
\* an event of the identity was admitted after the earlier violation.
C35_AdmissionBetweenViolations ==
    [][\A u \in ProgUsers :
          (/\ ProgEventOf(u)
           /\ buckets[u].violations > 0
           /\ buckets'[u].violations > buckets[u].violations)
          => \E k \in 1..Len(buckets[u].commands) :
                 buckets[u].commands[k] > buckets[u].last_violation]_vars

----------------------------------------------------------------------------
(* Claims about events without a sender *)

\* C36: an event without a sender identity goes straight to the handler in
\* AllowOnly, FastAuthMiddleware and FastRateLimit: the handler is called once,
\* nothing is sent, logged or raised, whatever the allow-list, and the stored
\* profiles, the buckets and the admission histories stay as they are.
C36_NoSenderPassThrough ==
    [][/\ (variant \in {"AllowOnly", "FastAuth"} /\ auth'.kind # "none"
              /\ auth'.user = NoUser) =>
              /\ auth'.verdict = "skipped"
              /\ auth'.next_calls = 1 /\ auth'.handler_calls = 1
              /\ auth'.sent = "none" /\ auth'.audit = "none"
              /\ ~auth'.profile /\ ~auth'.identity /\ ~auth'.created
              /\ ~auth'.raised
              /\ users' = users
       /\ (variant = "fast" /\ now' = now /\ last'.user = NoUser) =>
              /\ last'.outcome = "passthrough"
              /\ last'.calls = 1
              /\ ~last'.notified /\ ~last'.raised
              /\ bucket' = bucket
              /\ admitted' = admitted]_vars

\* an event without a sender has reached the handler although the allow-list
\* is not empty and a profile is stored
C36_Witness ==
    /\ variant \in {"AllowOnly", "FastAuth"}
    /\ auth.kind # "none" /\ auth.user = NoUser
    /\ auth.handler_calls = 1
    /\ ALLOWED_USERS # <<>>
    /\ users # {}

----------------------------------------------------------------------------
(* Claims about the sleep after the last attempt of safe_telegram_call *)

\* C37: when the last attempt of the budget of safe_telegram_call fails with a
\* rate-limit signal, a network error or an unexpected exception, the wrapper
\* returns None at once: it enters no sleep after that attempt.
C37_NoSleepAfterFinalAttempt ==
    [][(/\ TelegramCall /\ InvokesOperation
        /\ retry.attempt = retry.max_retries - 1
        /\ retry'.last_outcome \in {"retry_after", "network", "other"})
       => (/\ retry'.pc = "done"
           /\ retry'.result = "None"
           /\ retry'.sleeps = retry.sleeps)]_vars

----------------------------------------------------------------------------
(* Claims about BackupService.restore_backup *)

\* the calls restore_backup has made so far
Called(x) == \E k \in 1..Len(backup.calls) : backup.calls[k] = x

\* C39: a restore_backup that has called the stop of the WireGuard service
\* has called its start by the time it returns, a failed extraction included,
\* and it calls the stop only after create_backup('pre_restore') succeeded.
C39_StartFollowsStop ==
    /\ (backup.pc = "done" /\ Called("stop")) => Called("start")
    /\ Called("stop") =>
          /\ backup.calls[1] = "create_backup"
          /\ PreRestoreId \in backup.files

====
